---- MODULE Spec2Model ----
(***************************************************************************)
(* Physical-memory core of capucho-os: the bootstrap allocator, the bitmap *)
(* frame allocator (GlobalFrameAllocator), the paging context (mmap_dev,   *)
(* unmap) and the reference-counted mapping registry of the ACPI handler.  *)
(* Frames and pages are numbered (address / 0x1000).                       *)
(***************************************************************************)
EXTENDS Integers, Sequences, FiniteSets, Bags, TLC

\* ------------------------------------------------------------------------
\* Bounds of the model
\* ------------------------------------------------------------------------
\* largest number of stale bits the unwritten bitmap storage may hold
MaxGarbage == 1
\* largest reference count the registry is driven to
MaxRc == 2
\* largest number of PhysicalMappings alive at once
MaxRegions == 2
\* number of allocate_frame calls the allocation-order scenario makes
MaxCalls == 10
\* number of frames past the end of the memory map that requests may name
Beyond == 1
\* pages of the heap a map_range call is made for, at most
MaxPages == 2
\* IO APICs the ACPI tables list, at most
MaxIoApics == 2
\* setter calls made on one RedirEntry, at most
MaxOps == 2

\* ------------------------------------------------------------------------
\* Program constants
\* ------------------------------------------------------------------------
STORAGE_PER_BITMAP == 1022
BITS_PER_BITMAP == STORAGE_PER_BITMAP * 32
None == <<>>
Some(x) == <<x>>

Min(S) == CHOOSE x \in S : \A y \in S : x <= y

\* ------------------------------------------------------------------------
\* Firmware memory maps (bootloader::bootinfo::MemoryMap): sorted, disjoint
\* regions [start_frame_number, end_frame_number) with a region type
\* ------------------------------------------------------------------------
Region(s, e, t) == [start_frame_number |-> s, end_frame_number |-> e, region_type |-> t]

\* low RAM with firmware regions in between and a device window above 2 MiB
MapDevices ==
    << Region(0, 1, "FrameZero"), Region(1, 7, "Usable"), Region(7, 9, "Reserved"),
       Region(9, 10, "KernelStack"), Region(512, 514, "Reserved") >>

\* the first Usable region is smaller than what the bootstrap pass consumes
MapSplit ==
    << Region(0, 1, "FrameZero"), Region(1, 3, "Usable"), Region(3, 4, "Reserved"),
       Region(4, 5, "AcpiReclaimable"), Region(5, 9, "Usable"), Region(9, 10, "Kernel"),
       Region(10, 11, "Reserved") >>

MemoryMaps == {MapDevices, MapSplit}

\* a device window in the second bitmap block (frames from 32704 on), the
\* regions in address order
MapTwoBlocks ==
    << Region(0, 1, "FrameZero"), Region(1, 8, "Usable"), Region(32704, 32706, "Reserved") >>

\* the same regions, the device window not last in the map
MapUnsorted ==
    << Region(0, 1, "FrameZero"), Region(32704, 32706, "Reserved"), Region(1, 8, "Usable") >>

\* a kernel image in the second bitmap block, listed before low RAM
MapUnsortedKernel ==
    << Region(32704, 32706, "Kernel"), Region(0, 8, "Usable") >>

ChainMaps == {MapTwoBlocks, MapUnsorted, MapUnsortedKernel}

\* general RAM above 2 MiB, where no page table exists yet; the bootstrap
\* pass uses up the low Usable region and the first frame of the high one
MapHighRam ==
    << Region(0, 1, "FrameZero"), Region(1, 4, "Usable"), Region(512, 515, "Usable"),
       Region(515, 516, "Reserved") >>

\* RAM enough to back the pages of the heap and their page tables, below a
\* device
MapHeap ==
    << Region(0, 1, "FrameZero"), Region(1, 16, "Usable"), Region(16, 17, "Reserved") >>

\* the maps the kernel is started on
KernelMaps == MemoryMaps \cup ChainMaps \cup {MapHighRam, MapHeap}

\* the map of the allocation-order scenario
MapScenario ==
    << Region(0, 9, "Usable"), Region(9, 10, "Reserved"), Region(10, 20, "Usable") >>

start_addr(r) == r.start_frame_number * 4096
end_addr(r) == r.end_frame_number * 4096

RECURSIVE Flatten(_)
Flatten(ss) == IF ss = <<>> THEN <<>> ELSE Head(ss) \o Flatten(Tail(ss))

\* the range takes the end frame in (start..=end)
FrameSeq_inclusive(s, e) == [i \in 1..(IF e >= s THEN e - s + 1 ELSE 0) |-> s + i - 1]

FrameSeq(s, e) == [i \in 1..(IF e > s THEN e - s ELSE 0) |-> s + i - 1]

\* Reserved regions pass the filter too
IsUsable_or_reserved(r) == r.region_type \in {"Usable", "Reserved"}

IsUsable(r) == r.region_type = "Usable"

\* every frame number a region of the map covers
MapFrames(mm) == UNION {mm[i].start_frame_number..(mm[i].end_frame_number - 1) : i \in 1..Len(mm)}

\* the type of the region that really contains the frame ("none" outside the map)
TrueType(mm, f) ==
    IF \E i \in 1..Len(mm) : mm[i].start_frame_number <= f /\ f < mm[i].end_frame_number
    THEN mm[CHOOSE i \in 1..Len(mm) :
               mm[i].start_frame_number <= f /\ f < mm[i].end_frame_number].region_type
    ELSE "none"

\* ------------------------------------------------------------------------
\* GlobalFrameAllocator: [bitmap: set of frame numbers whose bit is set,
\*                        next_usable: cursor,
\*                        h: observations of the calls made so far]
\* h is not program state: since = frames returned since the last
\* deallocate_frame, dup = a frame of since was returned again, last = what
\* the latest call returned, starved = a call returned None while a Usable
\* frame was unmarked.
\* ------------------------------------------------------------------------
NoObservations ==
    [since |-> {}, dup |-> FALSE, last |-> None, starved |-> FALSE, recent |-> None]

Returned(a, h, i) ==
    [a EXCEPT !.h = [h EXCEPT !.dup = @ \/ i \in h.since,
                              !.since = @ \cup {i},
                              !.last = Some(i),
                              !.recent = Some(i)]]

Refused(mm, a) ==
    [a EXCEPT !.h.last = None,
              !.h.starved = @ \/ \E f \in MapFrames(mm) :
                                     TrueType(mm, f) = "Usable" /\ f \notin a.bitmap]

\* the bit is taken modulo 31
frame_idx_to_parts_narrow(idx) ==
    [bitmap |-> idx \div BITS_PER_BITMAP,
     int |-> (idx % BITS_PER_BITMAP) \div 32,
     bit |-> idx % 31]

\* (bitmap, int, bit): the block of the chain, the u32 in it, the bit in that
frame_idx_to_parts(idx) ==
    [bitmap |-> idx \div BITS_PER_BITMAP,
     int |-> (idx % BITS_PER_BITMAP) \div 32,
     bit |-> idx % 32]

\* get_bitmap / get_bitmap_mut: the walk from root over `level` next
\* pointers.  init links a.blocks blocks and never writes the next pointer
\* of the last one: a walk that goes further reads it as it was found.
get_bitmap(a, level) == IF level < a.blocks THEN Some(level) ELSE None

\* the accessors find a block for idx
Covered(a, idx) == get_bitmap(a, frame_idx_to_parts(idx).bitmap) # None

\* what following the unwritten next pointer ends in: a null pointer gives
\* .expect("There's no next block"), anything else is dereferenced
UnwrittenNext == {"There's no next block", "unwritten next pointer dereferenced"}

\* is_used, mark_used and mark_unused on the bits of a covered idx
is_used(a, idx) == idx \in a.bitmap
\* the bit is not set
mark_used_lost(a, idx) == a

mark_used(a, idx) == [a EXCEPT !.bitmap = @ \cup {idx}]
mark_unused(a, idx) == [a EXCEPT !.bitmap = @ \ {idx}]

frame_in_use(a, frame) == is_used(a, frame)

\* the region-type filter is missing
usable_frames_any(mm) ==
    Flatten([i \in 1..Len(mm) |->
        FrameSeq(mm[i].start_frame_number, mm[i].end_frame_number)])

\* the frames of the map's Usable regions, in map order
usable_frames(mm) ==
    Flatten([i \in 1..Len(mm) |->
        IF IsUsable(mm[i]) THEN FrameSeq(mm[i].start_frame_number, mm[i].end_frame_number)
        ELSE <<>>])

\* nothing is skipped: the scan starts at the first Usable frame
skip_while_none(s, next_usable) == s

\* skip_while(|r| *r < next_usable): the iterator drops the leading run of
\* frames below the cursor and yields everything after it
skip_while(s, next_usable) ==
    LET keep == {j \in 1..Len(s) : s[j] >= next_usable}
    IN  IF keep = {} THEN <<>> ELSE SubSeq(s, Min(keep), Len(s))

\* the scan starts over at the first Usable frame of the map
recalculate_next_usable_restarted(mm, a) ==
    LET first(iter, free) ==
            IF free = {} THEN [found |-> FALSE, a |-> a]
            ELSE [found |-> TRUE, a |-> [a EXCEPT !.next_usable = iter[Min(free)]]]
        scan(iter) == first(iter, {j \in 1..Len(iter) : ~is_used(a, iter[j])})
    IN  scan(usable_frames(mm))

\* returns [found, a]: the cursor moves to the first unmarked frame of iter
recalculate_next_usable(mm, a) ==
    LET first(iter, free) ==
            IF free = {} THEN [found |-> FALSE, a |-> a]
            ELSE [found |-> TRUE, a |-> [a EXCEPT !.next_usable = iter[Min(free)]]]
        scan(iter) == first(iter, {j \in 1..Len(iter) : ~is_used(a, iter[j])})
    IN  scan(skip_while(usable_frames(mm), a.next_usable))

\* returns [frame: Option, a]
allocate_frame(mm, a) ==
    LET take(r, i) ==
            IF r.found
            THEN [frame |-> Some(i), a |-> Returned(mark_used(r.a, i), a.h, i)]
            ELSE [frame |-> None, a |-> Refused(mm, a)]
        with(r) == take(r, r.a.next_usable)
    IN  with(recalculate_next_usable(mm, a))

\* the cursor goes back to the start of the map
deallocate_frame_rewind(a, frame) ==
    [mark_unused(a, frame) EXCEPT !.h.since = {}, !.next_usable = 0]

deallocate_frame(a, frame) == [mark_unused(a, frame) EXCEPT !.h.since = {}]

get_frame_ty(mm, frame) ==
    LET addr == frame * 4096
        hits == {i \in 1..Len(mm) : start_addr(mm[i]) >= addr /\ addr < end_addr(mm[i])}
    IN  IF hits = {} THEN None ELSE Some(mm[Min(hits)].region_type)


\* ------------------------------------------------------------------------
\* BootStrapAllocator: [next, used: frames taken per region of the map]
\* ------------------------------------------------------------------------
\* the BootStrapAllocator as init sets it up
BootStrapAllocator(mm) ==
    [next |-> 0, used |-> [i \in 1..Len(mm) |-> 0], returned |-> <<>>, refused |-> FALSE]

bootstrap_usable_frames(mm) ==
    Flatten([i \in 1..Len(mm) |->
        IF IsUsable(mm[i])
        THEN LET fs == FrameSeq(mm[i].start_frame_number, mm[i].end_frame_number)
             IN  [j \in 1..Len(fs) |-> <<fs[j], i>>]
        ELSE <<>>])

\* a frame is handed out without used[block] being counted up
bootstrap_allocate_frame_uncounted(mm, b) ==
    LET nth(s) ==
            IF b.next + 1 > Len(s) THEN [frame |-> None, a |-> [b EXCEPT !.refused = TRUE]]
            ELSE [frame |-> Some(s[b.next + 1][1]),
                  a |-> [b EXCEPT !.next = @ + 1,
                                  !.returned = Append(@, s[b.next + 1][1])]]
    IN  nth(bootstrap_usable_frames(mm))

\* BootStrapAllocator::allocate_frame on b = [next, used, returned, refused];
\* returned (the frames handed out so far) and refused (some call found no
\* frame) are observations, the code keeps next and used only
bootstrap_allocate_frame(mm, b) ==
    LET nth(s) ==
            IF b.next + 1 > Len(s) THEN [frame |-> None, a |-> [b EXCEPT !.refused = TRUE]]
            ELSE [frame |-> Some(s[b.next + 1][1]),
                  a |-> [b EXCEPT !.next = @ + 1,
                                  !.used[s[b.next + 1][2]] = @ + 1,
                                  !.returned = Append(@, s[b.next + 1][1])]]
    IN  nth(bootstrap_usable_frames(mm))

\* the FrameAllocator the mapper is handed: the bootstrap allocator while
\* init runs, the global allocator afterwards
FrameAllocator_allocate_frame(mm, which, a) ==
    IF which = "bootstrap" THEN bootstrap_allocate_frame(mm, a) ELSE allocate_frame(mm, a)

\* ------------------------------------------------------------------------
\* Page tables (x86_64::structures::paging::OffsetPageTable behind
\* ctx.mapper): [tables: the level 3, 2 and 1 tables that exist,
\*               pt: page -> [frame, flags] of every installed mapping,
\*               table_frames: the frames allocated to back new tables]
\* A page is [win, n]: page n of the identity window ("phys", virtual =
\* physical) or of the bitmap window that starts at BITMAP_START.
\* ------------------------------------------------------------------------
PhysPage(n) == [win |-> "phys", n |-> n]
\* BITMAP_START + bitmap_idx * 0x1000
BitmapPage(bitmap_idx) == [win |-> "bitmap", n |-> bitmap_idx]

\* page number of the window's base, modulo the span of one level-3 table
WindowBase(win) ==
    IF win = "bitmap" THEN 107374176 ELSE IF win = "heap" THEN 71582784 ELSE 0

RECURSIVE Pow512(_)
Pow512(level) == IF level = 0 THEN 1 ELSE 512 * Pow512(level - 1)

TableOf(page, level) ==
    [win |-> page.win, level |-> level, idx |-> (WindowBase(page.win) + page.n) \div Pow512(level)]

\* create_next_table: an unused parent entry takes a frame from the allocator
create_next_table(mm, st, table, which) ==
    LET with(r) ==
            IF r.frame = None
            THEN [st EXCEPT !.alloc = r.a, !.err = "FrameAllocationFailed"]
            ELSE [st EXCEPT !.alloc = r.a,
                            !.mapper.tables = @ \cup {table},
                            !.mapper.table_frames = @ \cup {r.frame[1]}]
    IN  IF st.err # "ok" \/ table \in st.mapper.tables THEN st
        ELSE with(FrameAllocator_allocate_frame(mm, which, st.alloc))

\* Mapper::map_to on st = [alloc, mapper, err]
map_to(mm, st, page, frame, flags, which) ==
    LET p1(s1) ==
            IF s1.err # "ok" THEN s1
            ELSE IF page \in DOMAIN s1.mapper.pt THEN [s1 EXCEPT !.err = "PageAlreadyMapped"]
            ELSE [s1 EXCEPT !.mapper.pt = (page :> [frame |-> frame, flags |-> flags]) @@ @]
        p2(s2) == p1(create_next_table(mm, s2, TableOf(page, 1), which))
        p3(s3) == p2(create_next_table(mm, s3, TableOf(page, 2), which))
    IN  p3(create_next_table(mm, st, TableOf(page, 3), which))

\* Mapper::identity_map
identity_map(mm, st, frame, flags, which) ==
    map_to(mm, st, PhysPage(frame), frame, flags, which)

\* Mapper::unmap: [err, frame, mapper]
mapper_unmap(mapper, page) ==
    IF page \in DOMAIN mapper.pt
    THEN [err |-> "ok", frame |-> mapper.pt[page].frame,
          mapper |-> [mapper EXCEPT !.pt = [p \in (DOMAIN mapper.pt) \ {page} |-> mapper.pt[p]]]]
    ELSE [err |-> "PageNotMapped", frame |-> 0, mapper |-> mapper]

\* ------------------------------------------------------------------------
\* GlobalFrameAllocator::init
\* ------------------------------------------------------------------------
\* st = [alloc: BootStrapAllocator, mapper, err]
allocate_bitmap(mm, st, bitmap_idx) ==
    LET with(r) ==
            IF r.frame = None THEN [st EXCEPT !.err = "Failed to allocate frame"]
            ELSE map_to(mm, [st EXCEPT !.alloc = r.a], BitmapPage(bitmap_idx), r.frame[1],
                        {"PRESENT", "WRITABLE"}, "bootstrap")
    IN  IF st.err # "ok" THEN st
        ELSE with(bootstrap_allocate_frame(mm, st.alloc))

RECURSIVE allocate_bitmaps(_, _, _, _)
allocate_bitmaps(mm, st, i, required_bitmaps) ==
    IF i >= required_bitmaps THEN st
    ELSE allocate_bitmaps(mm, allocate_bitmap(mm, st, i), i + 1, required_bitmaps)

required_bitmaps(mm) ==
    (mm[Len(mm)].end_frame_number + BITS_PER_BITMAP - 1) \div BITS_PER_BITMAP

\* the blocks init chains: the root and one per further required bitmap
blocks(mm) == IF required_bitmaps(mm) > 1 THEN required_bitmaps(mm) ELSE 1

\* the replay runs over start..size instead of start..(start + size)
bootstrap_marks_short(mm, used) ==
    UNION {mm[block].start_frame_number..(used[block] - 1) :
              block \in {b \in 1..Len(mm) : used[b] # 0}}

\* the frames init replays from bootstrap.used
bootstrap_marks(mm, used) ==
    UNION {mm[block].start_frame_number..(mm[block].start_frame_number + used[block] - 1) :
              block \in {b \in 1..Len(mm) : used[b] # 0}}

\* the frames of the regions init marks as in use
unusable_marks(mm) ==
    UNION {mm[i].start_frame_number..(mm[i].end_frame_number - 1) :
              i \in {j \in 1..Len(mm) :
                        mm[j].region_type \notin {"Usable", "Reserved", "AcpiReclaimable", "FrameZero"}}}

\* GlobalFrameAllocator::init on the boot page tables; stale holds the bits
\* found set in the bitmap storage, which init never clears.
\* Returns [err, allocator, mapper, bootstrap]
global_init(mm, boot_tables, stale) ==
    LET st0 == [alloc |-> BootStrapAllocator(mm),
                mapper |-> [tables |-> boot_tables, pt |-> <<>>, table_frames |-> {}],
                err |-> "ok"]
        marked(st, a) ==
            [err |-> IF st.err # "ok" THEN st.err
                     ELSE IF \E idx \in a.bitmap : ~Covered(a, idx)
                     THEN "There's no next block"
                     ELSE "ok",
             bootstrap |-> st.alloc,
             mapper |-> st.mapper,
             allocator |-> a]
        done(st) ==
            marked(st, [bitmap |-> stale \cup bootstrap_marks(mm, st.alloc.used)
                                        \cup unusable_marks(mm),
                        blocks |-> blocks(mm),
                        next_usable |-> 0,
                        h |-> NoObservations])
    IN  done(allocate_bitmaps(mm, allocate_bitmap(mm, st0, 0), 1, required_bitmaps(mm)))


\* ------------------------------------------------------------------------
\* Paging context ctx = [mapper, allocator] behind PAGING_CTX
\* ------------------------------------------------------------------------
\* the release always deallocates
unmap_frame_always(allocator, frame) == TRUE

\* UnmapGuard.unmap_frame as mmap_dev sets it
unmap_frame(allocator, frame) == ~frame_in_use(allocator, frame)

\* every device mapping is writable
extra_flags_writable(ty) == {"WRITABLE"}

\* extra_flags of mmap_dev for the types it goes on with
extra_flags(ty) == IF ty \in {"Reserved", "FrameZero"} THEN {"WRITABLE"} ELSE {}

\* mmap_dev: [res: "ok" | "err" | "panic", err, ctx, guard]
mmap_dev(mm, ctx, frame, acpi) ==
    LET none == [page |-> PhysPage(frame), unmap_frame |-> FALSE]
        guarded(st) ==
            IF st.err # "ok"
            THEN [res |-> "err", err |-> st.err,
                  ctx |-> [mapper |-> st.mapper, allocator |-> st.alloc], guard |-> none]
            ELSE IF ~Covered(st.alloc, frame)
            THEN [res |-> "panic", err |-> "There's no next block",
                  ctx |-> [mapper |-> st.mapper, allocator |-> st.alloc], guard |-> none]
            ELSE [res |-> "ok", err |-> "ok",
                  ctx |-> [mapper |-> st.mapper, allocator |-> st.alloc],
                  guard |-> [page |-> PhysPage(frame),
                             unmap_frame |-> unmap_frame(st.alloc, frame)]]
        typed(ty) ==
            IF ty = None
            THEN [res |-> "err", err |-> "FrameAllocationFailed", ctx |-> ctx, guard |-> none]
            ELSE IF ~(ty[1] \in {"Reserved", "FrameZero"} \/ (ty[1] = "KernelStack" /\ acpi))
            THEN [res |-> "panic", err |-> "Tried to mmap a device", ctx |-> ctx, guard |-> none]
            ELSE guarded(identity_map(
                     mm, [alloc |-> ctx.allocator, mapper |-> ctx.mapper, err |-> "ok"],
                     frame,
                     {"PRESENT", "NO_CACHE", "WRITE_THROUGH"} \cup extra_flags(ty[1]),
                     "global"))
    IN  typed(get_frame_ty(mm, frame))

\* unmap(guard): [res: "ok" | "err", ctx]
unmap(ctx, guard) ==
    LET with(u) ==
            IF u.err # "ok" THEN [res |-> "err", ctx |-> ctx]
            ELSE [res |-> "ok",
                  ctx |-> [mapper |-> u.mapper,
                           allocator |-> IF guard.unmap_frame
                                         THEN deallocate_frame(ctx.allocator, u.frame)
                                         ELSE ctx.allocator]]
    IN  with(mapper_unmap(ctx.mapper, guard.page))

\* HEAP_START + n * 0x1000
HeapPage(n) == [win |-> "heap", n |-> n]

\* the pages init_heap asks map_range for, n of them
HeapRange(n) == [i \in 1..n |-> HeapPage(i - 1)]

\* the loop of map_range from its i-th page on, on st = [alloc, mapper, err,
\* backing]; backing lists the frames the allocator returned for the pages
RECURSIVE map_pages(_, _, _, _, _)
map_pages(mm, st, range, flags, i) ==
    LET mapped(r) ==
            IF r.frame = None
            THEN [st EXCEPT !.alloc = r.a, !.err = "FrameAllocationFailed"]
            ELSE map_pages(mm,
                           map_to(mm, [st EXCEPT !.alloc = r.a,
                                                 !.backing = Append(@, r.frame[1])],
                                  range[i], r.frame[1], flags, "global"),
                           range, flags, i + 1)
    IN  IF st.err # "ok" \/ i > Len(range) THEN st
        ELSE mapped(allocate_frame(mm, st.alloc))

\* the frames handed to the pages are not kept marked
map_range_unmarked(mm, ctx, range, flags) ==
    LET with(st) ==
            [res |-> IF st.err = "ok" THEN "ok" ELSE "err", err |-> st.err,
             ctx |-> [mapper |-> st.mapper,
                      allocator |-> [st.alloc EXCEPT
                                        !.bitmap = @ \ {st.backing[i] : i \in 1..Len(st.backing)}]],
             backing |-> st.backing]
    IN  with(map_pages(mm, [alloc |-> ctx.allocator, mapper |-> ctx.mapper, err |-> "ok",
                            backing |-> <<>>],
                       range, flags, 1))

\* map_range: [res: "ok" | "err", err, ctx, backing]
map_range(mm, ctx, range, flags) ==
    LET with(st) ==
            [res |-> IF st.err = "ok" THEN "ok" ELSE "err", err |-> st.err,
             ctx |-> [mapper |-> st.mapper, allocator |-> st.alloc],
             backing |-> st.backing]
    IN  with(map_pages(mm, [alloc |-> ctx.allocator, mapper |-> ctx.mapper, err |-> "ok",
                            backing |-> <<>>],
                       range, flags, 1))

\* memory::identity_map: [res: "ok" | "err", err, ctx]
memory_identity_map(mm, ctx, frame, flags) ==
    LET with(st) ==
            [res |-> IF st.err = "ok" THEN "ok" ELSE "err", err |-> st.err,
             ctx |-> [mapper |-> st.mapper, allocator |-> st.alloc]]
    IN  with(identity_map(mm, [alloc |-> ctx.allocator, mapper |-> ctx.mapper, err |-> "ok"],
                          frame, flags, "global"))

\* memory::identity_unmap: [res: "ok" | "err", err, ctx]
identity_unmap(ctx, frame) ==
    LET with(u) ==
            [res |-> IF u.err = "ok" THEN "ok" ELSE "err", err |-> u.err,
             ctx |-> [ctx EXCEPT !.mapper = u.mapper]]
    IN  with(mapper_unmap(ctx.mapper, PhysPage(frame)))

\* ------------------------------------------------------------------------
\* Handler (the registry): mapping_refs: key -> [rc, guard], the key being
\* the frame's start address / 0x1000.  A registry state is
\* s = [ctx, mapping_refs, panicked, failure], failure being None or
\* Some([err, frame, via]): what the fatal call failed with, on which frame,
\* and whether the call came through the registry.
\* ------------------------------------------------------------------------
Remove(refs, key) == [k \in (DOMAIN refs) \ {key} |-> refs[k]]

\* a frame that has an entry is left as it is: the count is not raised
Handler_map_uncounted(mm, s, frame) ==
    LET key == frame
        with(r) ==
            IF r.res # "ok"
            THEN [s EXCEPT !.ctx = r.ctx, !.panicked = TRUE,
                           !.failure = Some([err |-> r.err, frame |-> frame, via |-> "registry"])]
            ELSE [s EXCEPT !.ctx = r.ctx,
                           !.mapping_refs = (key :> [rc |-> 1, guard |-> r.guard]) @@ @]
    IN  IF s.panicked \/ key \in DOMAIN s.mapping_refs THEN s
        ELSE with(mmap_dev(mm, s.ctx, frame, TRUE))

\* a frame that has an entry gets its count set back to 1
Handler_map_recounted(mm, s, frame) ==
    LET key == frame
        with(r) ==
            IF r.res # "ok"
            THEN [s EXCEPT !.ctx = r.ctx, !.panicked = TRUE,
                           !.failure = Some([err |-> r.err, frame |-> frame, via |-> "registry"])]
            ELSE [s EXCEPT !.ctx = r.ctx,
                           !.mapping_refs = (key :> [rc |-> 1, guard |-> r.guard]) @@ @]
    IN  IF s.panicked THEN s
        ELSE IF key \in DOMAIN s.mapping_refs
        THEN [s EXCEPT !.mapping_refs[key].rc = 1]
        ELSE with(mmap_dev(mm, s.ctx, frame, TRUE))

\* the registry is not looked at: every call maps
Handler_map_unchecked(mm, s, frame) ==
    LET key == frame
        with(r) ==
            IF r.res # "ok"
            THEN [s EXCEPT !.ctx = r.ctx, !.panicked = TRUE,
                           !.failure = Some([err |-> r.err, frame |-> frame, via |-> "registry"])]
            ELSE [s EXCEPT !.ctx = r.ctx,
                           !.mapping_refs = (key :> [rc |-> 1, guard |-> r.guard]) @@ @]
    IN  IF s.panicked THEN s
        ELSE with(mmap_dev(mm, s.ctx, frame, TRUE))

Handler_map(mm, s, frame) ==
    LET key == frame
        with(r) ==
            IF r.res # "ok"
            THEN [s EXCEPT !.ctx = r.ctx, !.panicked = TRUE,
                           !.failure = Some([err |-> r.err, frame |-> frame, via |-> "registry"])]
            ELSE [s EXCEPT !.ctx = r.ctx,
                           !.mapping_refs = (key :> [rc |-> 1, guard |-> r.guard]) @@ @]
    IN  IF s.panicked THEN s
        ELSE IF key \in DOMAIN s.mapping_refs
        THEN [s EXCEPT !.mapping_refs[key].rc = @ + 1]
        ELSE with(mmap_dev(mm, s.ctx, frame, TRUE))

\* a missing entry is passed over in silence
unmap_non_mapped_ignored(s, key) == s

\* .expect("Trying to unmap non mapped frame")
unmap_non_mapped(s, key) ==
    [s EXCEPT !.panicked = TRUE,
              !.failure = Some([err |-> "Trying to unmap non mapped frame", frame |-> key,
                                 via |-> "registry"])]

\* the count is not looked at: every call unmaps
Handler_unmap_eager(s, page) ==
    LET key == page.n
        with(u) ==
            [s EXCEPT !.mapping_refs = Remove(s.mapping_refs, key),
                      !.ctx = u.ctx,
                      !.panicked = (u.res # "ok"),
                      !.failure = IF u.res # "ok"
                                  THEN Some([err |-> "Failed to unmap", frame |-> key,
                                             via |-> "registry"])
                                  ELSE @]
    IN  IF s.panicked THEN s
        ELSE IF key \notin DOMAIN s.mapping_refs THEN unmap_non_mapped(s, key)
        ELSE with(unmap(s.ctx, s.mapping_refs[key].guard))

\* the entry is not removed when the count reaches zero
Handler_unmap_keep(s, page) ==
    LET key == page.n
        with(u) ==
            [s EXCEPT !.mapping_refs[key].rc = 0,
                      !.ctx = u.ctx,
                      !.panicked = (u.res # "ok"),
                      !.failure = IF u.res # "ok"
                                  THEN Some([err |-> "Failed to unmap", frame |-> key,
                                             via |-> "registry"])
                                  ELSE @]
    IN  IF s.panicked THEN s
        ELSE IF key \notin DOMAIN s.mapping_refs \/ s.mapping_refs[key].rc = 0
        THEN unmap_non_mapped(s, key)
        ELSE IF s.mapping_refs[key].rc - 1 # 0
        THEN [s EXCEPT !.mapping_refs[key].rc = @ - 1]
        ELSE with(unmap(s.ctx, s.mapping_refs[key].guard))

Handler_unmap(s, page) ==
    LET key == page.n
        with(u) ==
            [s EXCEPT !.mapping_refs = Remove(s.mapping_refs, key),
                      !.ctx = u.ctx,
                      !.panicked = (u.res # "ok"),
                      !.failure = IF u.res # "ok"
                                  THEN Some([err |-> "Failed to unmap", frame |-> key,
                                             via |-> "registry"])
                                  ELSE @]
    IN  IF s.panicked THEN s
        ELSE IF key \notin DOMAIN s.mapping_refs THEN unmap_non_mapped(s, key)
        ELSE IF s.mapping_refs[key].rc - 1 # 0
        THEN [s EXCEPT !.mapping_refs[key].rc = @ - 1]
        ELSE with(unmap(s.ctx, s.mapping_refs[key].guard))


\* ------------------------------------------------------------------------
\* AcpiHandler for LockedHandler: byte ranges
\* ------------------------------------------------------------------------
containing_address(addr) == addr \div 4096

\* the access is made before the frame is asked for
Handler_access_early(mm, s, address, op) ==
    [s |-> Handler_map(mm, s, containing_address(address)),
     access |-> Some([op |-> op, address |-> address,
                      entry |-> containing_address(address) \in DOMAIN s.mapping_refs,
                      mapped |-> PhysPage(containing_address(address))
                                     \in DOMAIN s.ctx.mapper.pt])]

\* LockedHandler::read / LockedHandler::write: self.map(containing frame),
\* then the volatile access, which finds the registry and the page tables
\* as map left them: [s, access]; a panic in map leaves no access
Handler_access(mm, s, address, op) ==
    LET key == containing_address(address)
        seen(s1) ==
            [s |-> s1,
             access |-> IF s1.panicked THEN None
                        ELSE Some([op |-> op, address |-> address,
                                   entry |-> key \in DOMAIN s1.mapping_refs,
                                   mapped |-> /\ PhysPage(key) \in DOMAIN s1.ctx.mapper.pt
                                              /\ s1.ctx.mapper.pt[PhysPage(key)].frame = key])]
    IN  seen(Handler_map(mm, s, key))

RECURSIVE map_frames(_, _, _, _)
map_frames(mm, s, frame, end) ==
    IF frame > end THEN s ELSE map_frames(mm, Handler_map(mm, s, frame), frame + 1, end)

\* [s, region: the PhysicalMapping handed back, as far as
\* unmap_physical_region reads it]
map_physical_region(mm, s, physical_address, size) ==
    LET start == containing_address(physical_address)
        end == containing_address(physical_address + size)
        mapped_length == end * 4096 + 4096 - start * 4096
    IN  [s |-> map_frames(mm, s, start, end),
         region |-> [physical_start |-> start * 4096,
                     mapped_length |-> mapped_length]]

RECURSIVE unmap_pages(_, _, _)
unmap_pages(s, page, end) ==
    IF page >= end THEN s ELSE unmap_pages(Handler_unmap(s, PhysPage(page)), page + 1, end)

\* the last page of the region is left out
unmap_physical_region_short(s, region) ==
    unmap_pages(s, region.physical_start \div 4096,
                (region.physical_start + region.mapped_length) \div 4096 - 1)

unmap_physical_region(s, region) ==
    LET start == region.physical_start \div 4096
        end == (region.physical_start + region.mapped_length) \div 4096
    IN  unmap_pages(s, start, end)

\* the frames a PhysicalMapping covers
RegionFrameSet(region) ==
    (region.physical_start \div 4096)..
        ((region.physical_start + region.mapped_length) \div 4096 - 1)

\* ------------------------------------------------------------------------
\* BootInfoFrameAllocator (the allocator without a bitmap): [next]
\* ------------------------------------------------------------------------
BootInfoFrameAllocator_init == [next |-> 0]

\* start_addr..end_addr stepped by 4096, each address taken to its frame
AddrSteps(lo, hi) == [i \in 1..(IF hi > lo THEN (hi - lo + 4095) \div 4096 ELSE 0) |->
                         containing_address(lo + (i - 1) * 4096)]

BootInfo_usable_frames(mm) ==
    Flatten([i \in 1..Len(mm) |->
        IF mm[i].region_type = "Usable" THEN AddrSteps(start_addr(mm[i]), end_addr(mm[i]))
        ELSE <<>>])

BootInfo_allocate_frame(mm, b) ==
    LET nth(s) ==
            [frame |-> IF b.next + 1 <= Len(s) THEN Some(s[b.next + 1]) ELSE None,
             a |-> [next |-> b.next + 1]]
    IN  nth(BootInfo_usable_frames(mm))

\* ------------------------------------------------------------------------
\* PAGING_CTX: Once<Mutex<PagingContext>> and the page-fault handler
\* ------------------------------------------------------------------------
\* a later call stores its value over the published one
call_once_replacing(once, value, new) == [once |-> "complete", value |-> new, ran |-> TRUE]

\* spin::Once::call_once: the closure runs only while the Once is incomplete;
\* on a complete Once the call returns the stored value
call_once(once, value, new) ==
    IF once = "complete" THEN [once |-> once, value |-> value, ran |-> FALSE]
    ELSE [once |-> "complete", value |-> new, ran |-> TRUE]

\* spin::Once::get
Once_get(once, value) == IF once = "complete" THEN Some(value) ELSE None

\* what a lock call that never returns is shown as
Spinning == <<"spinning">>

\* spin::Mutex::lock: spins while the mutex is held
Mutex_lock(lock) == IF lock = None THEN Some("guard") ELSE Spinning

\* the handler takes the lock the blocking way
try_lock_blocking(lock) == Mutex_lock(lock)

\* spin::Mutex::try_lock
try_lock(lock) == IF lock = None THEN Some("guard") ELSE None

\* Translate::translate on the pages the model tracks
translate(mapper, page) ==
    IF page \in DOMAIN mapper.pt
    THEN <<"Mapped", mapper.pt[page].frame, mapper.pt[page].flags>>
    ELSE <<"NotMapped">>

\* page_fault_handler: prints the header, prints the translation when
\* PAGING_CTX.get().and_then(try_lock) gives a guard, then hlt_loop.
\* [pc, diag, once_at, lock_at]: the last two record what the handler found
page_fault_handler(once, lock, value, page) ==
    LET with(g) ==
            [pc |-> IF g = Spinning THEN "spinning" ELSE "halted",
             diag |-> IF g = None \/ g = Spinning THEN <<"skipped">>
                      ELSE translate(value.mapper, page),
             once_at |-> once,
             lock_at |-> lock]
    IN  with(IF Once_get(once, value) = None THEN None ELSE try_lock(lock))

NoFault == [pc |-> "idle", diag |-> <<>>, once_at |-> "incomplete", lock_at |-> None]

\* ------------------------------------------------------------------------
\* State
\* ------------------------------------------------------------------------
VARIABLES
    memory_map,     \* the firmware memory map handed over at boot
    ctx,            \* PAGING_CTX: [mapper, allocator]
    mapping_refs,   \* Handler.mapping_refs
    panicked,       \* the kernel panicked and sits in hlt_loop
    failure,        \* None, or Some([err, frame, via]): what the fatal call
                    \* failed with
    bootstrap,      \* the BootStrapAllocator as init left it
    regions,        \* bag of the PhysicalMappings not yet dropped
    owned,          \* frames callers hold from allocate_frame
    direct,         \* frames mapped by mmap_dev callers outside the registry
    borrowed,       \* registered frames a caller held, marked used, when the
                    \* entry was made
    released,       \* what the latest registry call released, kept while
                    \* only allocate_frame calls follow
    pattern,        \* progress of map, map, unmap, unmap on one frame
    boot_bitmap,    \* the bitmap as init left it
    calls,          \* scenario: what each allocate_frame call returned
    legacy,         \* scenario: the BootInfoFrameAllocator and its results
    once,           \* PAGING_CTX: state of the Once
    lock,           \* PAGING_CTX: None, or Some([fn, arg]) while the
                    \* operation fn(arg) holds the Mutex
    logger,         \* log::set_logger has been called
    pf,             \* the page-fault handler: NoFault until it runs
    attempt,        \* how the latest initialization attempt ended
    access,         \* None, or Some of what the latest volatile access of
                    \* the ACPI handler found: [op, address, entry, mapped]
    cpu,            \* the processor and the interrupt controller: [pc,
                    \* interrupts, PICS, isr, info, touched]
    inner,          \* LockedHandler.inner: None, or Some(fn) while the
                    \* method fn holds the Mutex of the registry
    stack,          \* the calls in progress, outermost first: [fn, arg, pc]
    acquired,       \* the locks held, in the order they were acquired
    enabling,       \* the call of Acpi::enable: [pc, self, writes, polls,
                    \* hlts, seen, unsuccessful, result]
    redir_entry,    \* the RedirEntry being programmed: [prior, bits, ops]
    words           \* FrameAllocatorBitmap.bits of the blocks, bit by bit:
                    \* [bits, frames]

lock_vars == <<inner, stack, acquired>>

pure_vars == <<enabling, redir_entry, words>>

machine_vars == <<cpu, lock_vars, pure_vars>>

base_vars == <<memory_map, ctx, mapping_refs, panicked, failure, bootstrap, regions, owned,
               direct, borrowed, released, pattern, boot_bitmap, calls, legacy, once, lock,
               logger, pf, attempt, access, cpu, lock_vars>>

kernel_vars == <<once, lock, logger, pf, attempt, access, machine_vars>>

vars == <<memory_map, ctx, mapping_refs, panicked, failure, bootstrap, regions, owned, direct,
          borrowed, released, pattern, boot_bitmap, calls, legacy, kernel_vars>>

\* the page tables the bootloader leaves behind: the first 2 MiB are mapped
\* (VGA buffer), the bitmap window is untouched
BootTables == {TableOf(PhysPage(0), l) : l \in 1..3}

\* what the unwritten bitmap storage may hold
\* the frames whose bit may be found set.  On the two maps of the registry
\* runs: a free Usable frame, a frame device requests map, and frames init
\* leaves alone (FrameZero, AcpiReclaimable); on the other maps every
\* frame the chain covers.
StaleFrames(mm) ==
    IF mm = MapDevices THEN {6, 512}
    ELSE IF mm = MapSplit THEN {0, 4, 7}
    ELSE IF mm = MapHeap THEN {6, 16}
    ELSE {f \in MapFrames(mm) : f < blocks(mm) * BITS_PER_BITMAP}

StaleBits(mm) == {S \in SUBSET StaleFrames(mm) : Cardinality(S) <= MaxGarbage}

\* the frames single-frame requests are made for, per map
RequestFrames(mm) ==
    IF mm = MapDevices THEN {512}
    ELSE IF mm = MapSplit THEN {0, 3, 5, mm[Len(mm)].end_frame_number - 1 + Beyond}
    ELSE {}

\* the byte ranges <<physical_address, size>> requested, per map
RegionRequests(mm) ==
    IF mm = MapDevices THEN {<<6 * 4096, 4096>>, <<7 * 4096 + 4088, 8>>, <<7 * 4096, 8>>}
    ELSE IF mm = MapSplit THEN {<<3 * 4096 + 4088, 8>>, <<3 * 4096 + 8, 8>>}
    ELSE {}

\* the frames the interrupt-controller bring-up maps, per map
ApicFrames(mm) ==
    IF mm = MapDevices THEN {512}
    ELSE IF mm = MapSplit THEN {5, 10}
    ELSE IF mm \in ChainMaps THEN {32704}
    ELSE IF mm = MapHighRam THEN {513, 515}
    ELSE IF mm = MapHeap THEN {16}
    ELSE {}

\* the frames memory::identity_map and memory::identity_unmap are called
\* for, per map
IdentityFrames(mm) == IF mm = MapHeap THEN {16} ELSE {}

\* the byte addresses the AML interpreter reads and writes, per map
AccessAddresses(mm) ==
    IF mm = MapDevices THEN {512 * 4096 + 8, 8 * 4096 + 4088}
    ELSE IF mm = MapSplit THEN {3 * 4096 + 16, 10 * 4096}
    ELSE {}

NoPattern == [stage |-> 0, frame |-> 0, expect |-> <<>>]

\* the state once PAGING_CTX is published for one of the maps
Boot(maps) ==
    \E mm \in maps :
    \E stale \in StaleBits(mm) :
    \E g \in {global_init(mm, BootTables, stale)} :
        /\ g.err = "ok"
        /\ memory_map = mm
        /\ boot_bitmap = g.allocator.bitmap
        /\ calls = <<>>
        /\ legacy = [allocator |-> BootInfoFrameAllocator_init, calls |-> <<>>]
        /\ ctx = [mapper |-> g.mapper, allocator |-> g.allocator]
        /\ bootstrap = g.bootstrap
        /\ mapping_refs = <<>>
        /\ panicked = FALSE
        /\ failure = None
        /\ regions = EmptyBag
        /\ owned = {}
        /\ direct = {}
        /\ borrowed = {}
        /\ released = {}
        /\ pattern = NoPattern

\* Acpi::enable has not been called
NotCalled ==
    [pc |-> "idle", self |-> None, writes |-> <<>>, polls |-> 0, hlts |-> 0, seen |-> None,
     unsuccessful |-> 0, result |-> None]

\* no RedirEntry has been read
NoEntry == [prior |-> {}, bits |-> {}, ops |-> <<>>]

\* the words of the bitmap blocks with no bit set, no frame marked
NoWords == [bits |-> {}, frames |-> {}]

\* PICS as the static initializer leaves it: the Mutex unlocked around
\* InterruptController::new(..), the Pics variant
PICS_new == [guard |-> None, controller |-> <<"Pics">>]

\* the processor at the kernel's entry: interrupts disabled, nothing run
CpuReset ==
    [pc |-> "init", interrupts |-> FALSE, saved |-> FALSE, PICS |-> PICS_new, isr |-> None,
     info |-> None, io_apics |-> <<>>, touched |-> {}]

\* the processor once capucho_os::init has returned: the PICs initialized,
\* interrupts enabled
CpuRunning == [CpuReset EXCEPT !.pc = "main", !.interrupts = TRUE]

\* capucho_os::init has returned and nothing holds the lock
Published ==
    /\ once = "complete"
    /\ lock = None
    /\ logger = TRUE
    /\ pf = NoFault
    /\ attempt = "published"
    /\ access = None
    /\ cpu = CpuRunning
    /\ inner = None
    /\ stack = <<>>
    /\ acquired = <<>>
    /\ enabling = NotCalled
    /\ redir_entry = NoEntry
    /\ words = NoWords

Init == Boot(MemoryMaps) /\ Published

State == [ctx |-> ctx, mapping_refs |-> mapping_refs, panicked |-> panicked,
          failure |-> failure]

\* the registry call took the state to s
Become(s) ==
    LET new == (DOMAIN s.mapping_refs) \ DOMAIN mapping_refs
        gone == (DOMAIN mapping_refs) \ DOMAIN s.mapping_refs
    IN  /\ ctx' = s.ctx
        /\ mapping_refs' = s.mapping_refs
        /\ panicked' = s.panicked
        /\ failure' = s.failure
        /\ borrowed' = (borrowed \cup {f \in new \cap owned : is_used(ctx.allocator, f)}) \ gone
        /\ released' = IF gone = {} THEN {}
                       ELSE {[frame |-> f,
                              owned_at_map |-> f \in borrowed,
                              owned |-> f \in owned,
                              used_after |-> is_used(s.ctx.allocator, f)] : f \in gone}

\* a caller takes a frame from ctx.allocator
AllocateFrame ==
    /\ ~panicked
    /\ \E r \in {allocate_frame(memory_map, ctx.allocator)} :
           /\ ctx' = [ctx EXCEPT !.allocator = r.a]
           /\ owned' = IF r.frame = None THEN owned ELSE owned \cup {r.frame[1]}
    /\ pattern' = NoPattern
    /\ UNCHANGED kernel_vars
    /\ UNCHANGED <<memory_map, boot_bitmap, calls, legacy, mapping_refs, panicked, failure, bootstrap, regions, direct,
                   borrowed, released>>

\* a caller gives back a frame it holds and that is not mapped for it
DeallocateFrame ==
    /\ ~panicked
    /\ \E frame \in owned \ borrowed :
        /\ ctx' = [ctx EXCEPT !.allocator = deallocate_frame(@, frame)]
        /\ owned' = owned \ {frame}
    /\ pattern' = NoPattern
    /\ released' = {}
    /\ UNCHANGED kernel_vars
    /\ UNCHANGED <<memory_map, boot_bitmap, calls, legacy, mapping_refs, panicked, failure, bootstrap, regions, direct, borrowed>>

\* LockedHandler::map
HandlerMap ==
    /\ ~panicked
    /\ \E frame \in RequestFrames(memory_map) :
        \E s \in {Handler_map(memory_map, State, frame)} :
            /\ frame \in DOMAIN mapping_refs => mapping_refs[frame].rc < MaxRc
            /\ Become(s)
            /\ pattern' =
                  IF s.panicked THEN NoPattern
                  ELSE IF frame \notin DOMAIN mapping_refs
                  THEN [stage |-> 1, frame |-> frame,
                        expect |-> Handler_unmap(s, PhysPage(frame)).ctx.mapper]
                  ELSE IF pattern.stage = 1 /\ pattern.frame = frame
                  THEN [pattern EXCEPT !.stage = 2]
                  ELSE NoPattern
    /\ UNCHANGED kernel_vars
    /\ UNCHANGED <<memory_map, boot_bitmap, calls, legacy, bootstrap, regions, owned, direct>>

\* LockedHandler::unmap
HandlerUnmap ==
    /\ ~panicked
    /\ \E frame \in RequestFrames(memory_map) :
        \E s \in {Handler_unmap(State, PhysPage(frame))} :
            /\ Become(s)
            /\ pattern' =
                  IF ~s.panicked /\ pattern.stage \in {2, 3} /\ pattern.frame = frame
                  THEN [pattern EXCEPT !.stage = @ + 1]
                  ELSE NoPattern
    /\ UNCHANGED kernel_vars
    /\ UNCHANGED <<memory_map, boot_bitmap, calls, legacy, bootstrap, regions, owned, direct>>

MapPhysicalRegion ==
    /\ ~panicked
    /\ BagCardinality(regions) < MaxRegions
    /\ \E req \in RegionRequests(memory_map) :
        \E r \in {map_physical_region(memory_map, State, req[1], req[2])} :
            /\ \A k \in RegionFrameSet(r.region) \cap DOMAIN mapping_refs :
                   mapping_refs[k].rc < MaxRc
            /\ Become(r.s)
            /\ regions' = IF r.s.panicked THEN regions ELSE regions (+) SetToBag({r.region})
    /\ pattern' = NoPattern
    /\ UNCHANGED kernel_vars
    /\ UNCHANGED <<memory_map, boot_bitmap, calls, legacy, bootstrap, owned, direct>>

\* a PhysicalMapping is dropped
UnmapPhysicalRegion ==
    /\ ~panicked
    /\ \E region \in BagToSet(regions) :
        /\ \E s \in {unmap_physical_region(State, region)} : Become(s)
        /\ regions' = regions (-) SetToBag({region})
    /\ pattern' = NoPattern
    /\ UNCHANGED kernel_vars
    /\ UNCHANGED <<memory_map, boot_bitmap, calls, legacy, bootstrap, owned, direct>>

\* lapic_handover / apic_init: mmap_dev(frame, false).expect(..), guard dropped
ApicMmapDev ==
    /\ ~panicked
    /\ \E frame \in ApicFrames(memory_map) :
        \E r \in {mmap_dev(memory_map, ctx, frame, FALSE)} :
            /\ ctx' = r.ctx
            /\ panicked' = (r.res # "ok")
            /\ failure' = IF r.res # "ok"
                          THEN Some([err |-> r.err, frame |-> frame, via |-> "direct"])
                          ELSE failure
            /\ direct' = IF r.res = "ok" THEN direct \cup {frame} ELSE direct
    /\ pattern' = NoPattern
    /\ released' = {}
    /\ UNCHANGED kernel_vars
    /\ UNCHANGED <<memory_map, boot_bitmap, calls, legacy, mapping_refs, bootstrap, regions, owned, borrowed>>

Next ==
    \/ AllocateFrame
    \/ DeallocateFrame
    \/ HandlerMap
    \/ HandlerUnmap
    \/ MapPhysicalRegion
    \/ UnmapPhysicalRegion
    \/ ApicMmapDev

Spec == Init /\ [][Next]_vars

\* ------------------------------------------------------------------------
\* The allocation-order scenario: only allocate_frame calls, on the map
\* {Usable 0x0-0x9000, Reserved 0x9000-0xA000, Usable 0xA000-0x14000}
\* ------------------------------------------------------------------------
\* ------------------------------------------------------------------------
\* The AML handler's memory accesses next to the registry's other users
\* ------------------------------------------------------------------------
\* AmlHandler::read_u8 .. read_u64, write_u8 .. write_u64
HandlerAccess ==
    /\ ~panicked
    /\ \E address \in AccessAddresses(memory_map), op \in {"read", "write"} :
        \E r \in {Handler_access(memory_map, State, address, op)} :
            /\ containing_address(address) \in DOMAIN mapping_refs
                   => mapping_refs[containing_address(address)].rc < MaxRc
            /\ Become(r.s)
            /\ access' = r.access
    /\ pattern' = NoPattern
    /\ UNCHANGED <<memory_map, boot_bitmap, calls, legacy, bootstrap, regions, owned, direct,
                   once, lock, logger, pf, attempt, machine_vars>>

AccessNext ==
    \/ HandlerAccess
    \/ HandlerMap
    \/ HandlerUnmap
    \/ ApicMmapDev

SpecAccess == Init /\ [][AccessNext]_vars

\* ------------------------------------------------------------------------
\* The bootstrap allocator asked for more frames than init took
\* ------------------------------------------------------------------------
BootstrapInit == Boot(MemoryMaps \cup {MapScenario}) /\ Published

\* BootStrapAllocator::allocate_frame
BootstrapAllocate ==
    /\ \E r \in {bootstrap_allocate_frame(memory_map, bootstrap)} :
           bootstrap' = r.a
    /\ UNCHANGED kernel_vars
    /\ UNCHANGED <<memory_map, boot_bitmap, calls, legacy, ctx, mapping_refs, panicked, failure,
                   regions, owned, direct, borrowed, released, pattern>>

BootstrapNext == BootstrapAllocate

SpecBootstrap == BootstrapInit /\ [][BootstrapNext]_vars

ScenarioInit == Boot({MapScenario}) /\ Published

ScenarioAllocate ==
    /\ Len(calls) < MaxCalls
    /\ \E r \in {allocate_frame(memory_map, ctx.allocator)} :
           /\ ctx' = [ctx EXCEPT !.allocator = r.a]
           /\ calls' = Append(calls, r.frame)
    /\ UNCHANGED kernel_vars
    /\ UNCHANGED <<memory_map, boot_bitmap, legacy, mapping_refs, panicked, failure, bootstrap, regions,
                   owned, direct, borrowed, released, pattern>>

ScenarioAllocateBootInfo ==
    /\ Len(legacy.calls) < MaxCalls
    /\ \E r \in {BootInfo_allocate_frame(memory_map, legacy.allocator)} :
           legacy' = [allocator |-> r.a, calls |-> Append(legacy.calls, r.frame)]
    /\ UNCHANGED kernel_vars
    /\ UNCHANGED <<memory_map, boot_bitmap, calls, ctx, mapping_refs, panicked, failure, bootstrap,
                   regions, owned, direct, borrowed, released, pattern>>

ScenarioNext ==
    \/ ScenarioAllocate
    \/ ScenarioAllocateBootInfo

SpecScenario == ScenarioInit /\ [][ScenarioNext]_vars


\* ------------------------------------------------------------------------
\* The kernel from its entry point: initialization, the lock of PAGING_CTX
\* around mmap_dev, page faults
\* ------------------------------------------------------------------------
\* the context variables before anything is published
NoContext ==
    [mapper |-> [tables |-> BootTables, pt |-> <<>>, table_frames |-> {}],
     allocator |-> [bitmap |-> {}, blocks |-> 1, next_usable |-> 0, h |-> NoObservations]]

KernelStart ==
    /\ memory_map \in KernelMaps
    /\ ctx = NoContext
    /\ boot_bitmap = {}
    /\ bootstrap = BootStrapAllocator(memory_map)
    /\ calls = <<>>
    /\ legacy = [allocator |-> BootInfoFrameAllocator_init, calls |-> <<>>]
    /\ mapping_refs = <<>>
    /\ panicked = FALSE
    /\ failure = None
    /\ regions = EmptyBag
    /\ owned = {}
    /\ direct = {}
    /\ borrowed = {}
    /\ released = {}
    /\ pattern = NoPattern
    /\ once = "incomplete"
    /\ lock = None
    /\ logger = FALSE
    /\ pf = NoFault
    /\ attempt = "none"
    /\ access = None
    /\ cpu = CpuReset
    /\ inner = None
    /\ stack = <<>>
    /\ acquired = <<>>
    /\ enabling = NotCalled
    /\ redir_entry = NoEntry
    /\ words = NoWords

\* capucho_os::init: set_logger(..).unwrap(), the allocator's init, call_once
LibInit ==
    /\ ~panicked /\ pf.pc = "idle" /\ lock = None
    /\ IF logger
       THEN /\ panicked' = TRUE
            /\ failure' = Some([err |-> "SetLoggerError", frame |-> 0, via |-> "init"])
            /\ attempt' = "panicked"
            /\ UNCHANGED <<ctx, boot_bitmap, bootstrap, once, logger>>
       ELSE \E stale \in StaleBits(memory_map) :
            \E g \in {global_init(memory_map, BootTables, stale)} :
            \E c \in {call_once(once, ctx, [mapper |-> g.mapper, allocator |-> g.allocator])} :
                /\ logger' = TRUE
                /\ panicked' = (g.err # "ok")
                /\ \E e \in (IF g.err = "There's no next block" THEN UnwrittenNext
                               ELSE {g.err}) :
                       failure' = IF g.err # "ok"
                                  THEN Some([err |-> e, frame |-> 0, via |-> "init"])
                                  ELSE failure
                /\ once' = IF g.err = "ok" THEN c.once ELSE once
                /\ ctx' = IF g.err = "ok" THEN c.value ELSE ctx
                /\ boot_bitmap' = IF g.err = "ok" /\ c.ran THEN g.allocator.bitmap
                                  ELSE boot_bitmap
                /\ bootstrap' = IF g.err = "ok" /\ c.ran THEN g.bootstrap ELSE bootstrap
                /\ attempt' = IF g.err # "ok" THEN "panicked"
                              ELSE IF c.ran THEN "published" ELSE "ignored"
    /\ UNCHANGED <<memory_map, access, machine_vars, calls, legacy, mapping_refs, regions, owned, direct, borrowed,
                   released, pattern, lock, pf>>

\* PAGING_CTX.call_once(..) on the public static, with a fresh context
CallOnce ==
    /\ ~panicked /\ pf.pc = "idle" /\ lock = None
    /\ \E c \in {call_once(once, ctx, NoContext)} :
        /\ once' = c.once
        /\ ctx' = c.value
        /\ attempt' = IF c.ran THEN "published" ELSE "ignored"
    /\ UNCHANGED <<memory_map, access, machine_vars, boot_bitmap, bootstrap, calls, legacy, mapping_refs, panicked, failure,
                   regions, owned, direct, borrowed, released, pattern, lock, logger, pf>>

\* the guard outlives the function that took it
Guard_leaked(held, res) == held

\* the MutexGuard of PAGING_CTX at the end of an operation whose result is
\* res: dropped when the function returns, kept when it panicked inside
Guard_drop(held, res) == IF res = "panic" THEN held ELSE None

\* PAGING_CTX.get().unwrap().lock() at the head of the operation op =
\* [fn, arg]: unwrap panics before publication, lock() spins while the
\* lock is held
Acquire(op, frame, via) ==
    /\ ~panicked /\ pf.pc = "idle"
    /\ IF Once_get(once, ctx) = None
       THEN /\ panicked' = TRUE
            /\ failure' = Some([err |-> "unwrap on None", frame |-> frame, via |-> via])
            /\ UNCHANGED lock
       ELSE /\ Mutex_lock(lock) # Spinning
            /\ lock' = Some(op)
            /\ UNCHANGED <<panicked, failure>>

\* the operation fn holds the lock and is about to run its body
Holding(fn) == ~panicked /\ pf.pc = "idle" /\ lock # None /\ lock[1].fn = fn

\* mmap_dev up to PAGING_CTX.get().unwrap().lock(): called by the
\* interrupt-controller bring-up (acpi = FALSE) or by the registry for a
\* frame that has no entry (acpi = TRUE)
MmapDevEnter ==
    /\ \E frame \in ApicFrames(memory_map), acpi \in BOOLEAN :
        /\ acpi => frame \notin DOMAIN mapping_refs
        /\ Acquire([fn |-> "mmap_dev", arg |-> [frame |-> frame, acpi |-> acpi]], frame,
                   IF acpi THEN "registry" ELSE "direct")
    /\ UNCHANGED <<memory_map, access, machine_vars, ctx, boot_bitmap, bootstrap, calls, legacy, mapping_refs,
                   regions, owned, direct, borrowed, released, pattern, once, logger, pf,
                   attempt>>

\* the rest of mmap_dev; the guard of the Mutex is dropped on return, a
\* panic inside keeps it; both callers panic on Err, the registry inserts
\* the entry on Ok
MmapDevLeave ==
    /\ Holding("mmap_dev")
    /\ \E r \in {mmap_dev(memory_map, ctx, lock[1].arg.frame, lock[1].arg.acpi)} :
        /\ ctx' = r.ctx
        /\ panicked' = (r.res # "ok")
        /\ \E e \in (IF r.err = "There's no next block" THEN UnwrittenNext ELSE {r.err}) :
               failure' = IF r.res # "ok"
                          THEN Some([err |-> e, frame |-> lock[1].arg.frame,
                                     via |-> IF lock[1].arg.acpi THEN "registry" ELSE "direct"])
                          ELSE failure
        /\ direct' = IF r.res = "ok" /\ ~lock[1].arg.acpi
                     THEN direct \cup {lock[1].arg.frame} ELSE direct
        /\ mapping_refs' = IF r.res = "ok" /\ lock[1].arg.acpi
                           THEN (lock[1].arg.frame :> [rc |-> 1, guard |-> r.guard])
                                    @@ mapping_refs
                           ELSE mapping_refs
        /\ lock' = Guard_drop(lock, r.res)
    /\ UNCHANGED <<memory_map, access, machine_vars, boot_bitmap, bootstrap, calls, legacy, regions,
                   owned, borrowed, released, pattern, once, logger, pf, attempt>>

\* the registry's unmap of an entry counted once: the entry is removed,
\* then unmap(guard) runs up to PAGING_CTX.get().unwrap().lock()
UnmapEnter ==
    /\ \E key \in DOMAIN mapping_refs :
        /\ mapping_refs[key].rc = 1
        /\ Acquire([fn |-> "unmap", arg |-> mapping_refs[key].guard], key, "registry")
        /\ mapping_refs' = Remove(mapping_refs, key)
    /\ UNCHANGED <<memory_map, access, machine_vars, ctx, boot_bitmap, bootstrap, calls, legacy,
                   regions, owned, direct, borrowed, released, pattern, once, logger, pf,
                   attempt>>

\* the rest of unmap(guard); the registry panics on Err
UnmapLeave ==
    /\ Holding("unmap")
    /\ \E r \in {unmap(ctx, lock[1].arg)} :
        /\ ctx' = r.ctx
        /\ panicked' = (r.res # "ok")
        /\ failure' = IF r.res # "ok"
                      THEN Some([err |-> "Failed to unmap", frame |-> lock[1].arg.page.n,
                                 via |-> "registry"])
                      ELSE failure
        /\ lock' = Guard_drop(lock, r.res)
    /\ UNCHANGED <<memory_map, access, machine_vars, boot_bitmap, bootstrap, calls, legacy, mapping_refs, regions,
                   owned, direct, borrowed, released, pattern, once, logger, pf, attempt>>

\* init_heap: map_range over the first pages of the heap, up to the lock
MapRangeEnter ==
    /\ \E n \in 1..MaxPages :
        Acquire([fn |-> "map_range",
                 arg |-> [range |-> HeapRange(n),
                          flags |-> {"PRESENT", "WRITABLE"}]], 0, "heap")
    /\ UNCHANGED <<memory_map, access, machine_vars, ctx, boot_bitmap, bootstrap, calls, legacy, mapping_refs,
                   regions, owned, direct, borrowed, released, pattern, once, logger, pf,
                   attempt>>

\* the loop of map_range; init_heap passes an Err on and init panics on it
MapRangeLeave ==
    /\ Holding("map_range")
    /\ \E r \in {map_range(memory_map, ctx, lock[1].arg.range, lock[1].arg.flags)} :
        /\ ctx' = r.ctx
        /\ panicked' = (r.res # "ok")
        /\ failure' = IF r.res # "ok"
                      THEN Some([err |-> r.err, frame |-> 0, via |-> "heap"])
                      ELSE failure
        /\ owned' = owned \cup {r.backing[i] : i \in 1..Len(r.backing)}
        /\ lock' = Guard_drop(lock, r.res)
    /\ UNCHANGED <<memory_map, access, machine_vars, boot_bitmap, bootstrap, calls, legacy, mapping_refs, regions,
                   direct, borrowed, released, pattern, once, logger, pf, attempt>>

\* memory::identity_map up to the lock
IdentityMapEnter ==
    /\ \E frame \in IdentityFrames(memory_map) :
        Acquire([fn |-> "identity_map",
                 arg |-> [frame |-> frame, flags |-> {"PRESENT", "WRITABLE"}]],
                frame, "memory")
    /\ UNCHANGED <<memory_map, access, machine_vars, ctx, boot_bitmap, bootstrap, calls, legacy, mapping_refs,
                   regions, owned, direct, borrowed, released, pattern, once, logger, pf,
                   attempt>>

\* the rest of memory::identity_map; the Result goes back to the caller
IdentityMapLeave ==
    /\ Holding("identity_map")
    /\ \E r \in {memory_identity_map(memory_map, ctx, lock[1].arg.frame, lock[1].arg.flags)} :
        /\ ctx' = r.ctx
        /\ lock' = Guard_drop(lock, r.res)
    /\ UNCHANGED <<memory_map, access, machine_vars, boot_bitmap, bootstrap, calls, legacy, mapping_refs, regions,
                   panicked, failure, owned, direct, borrowed, released, pattern, once, logger,
                   pf, attempt>>

\* memory::identity_unmap up to the lock
IdentityUnmapEnter ==
    /\ \E frame \in IdentityFrames(memory_map) :
        Acquire([fn |-> "identity_unmap", arg |-> frame], frame, "memory")
    /\ UNCHANGED <<memory_map, access, machine_vars, ctx, boot_bitmap, bootstrap, calls, legacy, mapping_refs,
                   regions, owned, direct, borrowed, released, pattern, once, logger, pf,
                   attempt>>

\* the rest of memory::identity_unmap; the Result goes back to the caller
IdentityUnmapLeave ==
    /\ Holding("identity_unmap")
    /\ \E r \in {identity_unmap(ctx, lock[1].arg)} :
        /\ ctx' = r.ctx
        /\ lock' = Guard_drop(lock, r.res)
    /\ UNCHANGED <<memory_map, access, machine_vars, boot_bitmap, bootstrap, calls, legacy, mapping_refs, regions,
                   panicked, failure, owned, direct, borrowed, released, pattern, once, logger,
                   pf, attempt>>

\* a page fault on an address of one of the pages requests are made for
PageFault ==
    /\ ~panicked /\ pf.pc = "idle"
    /\ \E frame \in ApicFrames(memory_map) :
        pf' = page_fault_handler(once, lock, ctx, PhysPage(frame))
    /\ UNCHANGED <<memory_map, access, machine_vars, ctx, boot_bitmap, bootstrap, calls, legacy, mapping_refs,
                   panicked, failure, regions, owned, direct, borrowed, released, pattern, once, lock,
                   logger, attempt>>

KernelNext ==
    \/ LibInit
    \/ CallOnce
    \/ MmapDevEnter
    \/ MmapDevLeave
    \/ UnmapEnter
    \/ UnmapLeave
    \/ MapRangeEnter
    \/ MapRangeLeave
    \/ IdentityMapEnter
    \/ IdentityMapLeave
    \/ IdentityUnmapEnter
    \/ IdentityUnmapLeave
    \/ PageFault

SpecKernel == KernelStart /\ [][KernelNext]_vars

\* ------------------------------------------------------------------------
\* Interrupts and the APIC bring-up: capucho_os::init up to the enabling
\* of interrupts, apic_init, the timer and keyboard handlers
\* ------------------------------------------------------------------------
\* the closure runs with whatever the interrupt flag was
without_interrupts_enabled(enabled) == enabled

\* the interrupt flag while the closure of without_interrupts runs
without_interrupts(enabled) == FALSE

\* the result is dropped unlooked at
expect_unchecked(res) == TRUE

\* Result::expect: goes on when the result is Ok, panics otherwise
expect(res) == res = "ok"

\* the frames the ACPI tables may name as controller bases, per map
ControllerFrames(mm) ==
    IF mm = MapDevices THEN {7, 512, 513}
    ELSE IF mm = MapSplit THEN {3, 5, 10}
    ELSE ApicFrames(mm)

\* the sequences over S of length at most n
SeqsUpTo(S, n) == UNION {[1..k -> S] : k \in 0..n}

\* acpi::platform::Apic as apic_init is handed it: the frame of
\* local_apic_address and the frames of the io_apics' addresses
ApicInfos(mm) ==
    [local_apic_address : ControllerFrames(mm),
     io_apics : SeqsUpTo(ControllerFrames(mm), MaxIoApics)]

\* the maps the bring-up is run on
ApicMaps == {MapDevices, MapSplit}

\* a volatile access of a controller register in frame, and whether the
\* page of that frame translates at that moment
Touch(mapper, frame, reg) ==
    LET identity(t) == t[1] = "Mapped" /\ t[2] = frame
    IN  [frame |-> frame, reg |-> reg, mapped |-> identity(translate(mapper, PhysPage(frame)))]

\* InterruptController::init: the registers of the local APIC it reads
\* and writes in Apic mode, none in Pics mode (port writes only)
InterruptController_init(controller, mapper) ==
    IF controller[1] = "Apic" THEN {Touch(mapper, controller[2], "siv")} ELSE {}

\* InterruptController::notify_end_of_interrupt
notify_end_of_interrupt(controller, mapper) ==
    IF controller[1] = "Apic" THEN {Touch(mapper, controller[2], "eoi")} ELSE {}

\* code outside the handlers runs while no handler is active
Running(pc) == ~panicked /\ cpu.isr = None /\ cpu.pc = pc

Untouched == UNCHANGED <<memory_map, ctx, mapping_refs, panicked, failure, bootstrap, regions,
                         owned, direct, borrowed, released, pattern, boot_bitmap, calls, legacy,
                         once, lock, logger, pf, attempt, access, lock_vars, pure_vars>>

ApicStart == KernelStart /\ memory_map \in ApicMaps

\* lib.rs: PICS.lock(), the guard a temporary of the statement
PicsLock ==
    /\ Running("init")
    /\ \E g \in {Mutex_lock(cpu.PICS.guard)} :
        cpu' = IF g = Spinning THEN [cpu EXCEPT !.pc = "spinning"]
               ELSE [cpu EXCEPT !.pc = "pics_init", !.PICS.guard = Some("init")]
    /\ Untouched

\* lib.rs: .init() on the guard, the guard dropped at the statement's end
PicsInit ==
    /\ Running("pics_init")
    /\ cpu' = [cpu EXCEPT !.pc = "enable", !.PICS.guard = None,
                          !.touched = @ \cup InterruptController_init(cpu.PICS.controller,
                                                                      ctx.mapper)]
    /\ Untouched

\* lib.rs: x86_64::instructions::interrupts::enable()
InterruptsEnable ==
    /\ Running("enable")
    /\ cpu' = [cpu EXCEPT !.pc = "memory", !.interrupts = TRUE]
    /\ Untouched

\* lib.rs: the rest of init: set_logger, the allocator's init, call_once
InitMemory ==
    /\ Running("memory")
    /\ \E stale \in StaleBits(memory_map) :
       \E g \in {global_init(memory_map, BootTables, stale)} :
       \E c \in {call_once(once, ctx, [mapper |-> g.mapper, allocator |-> g.allocator])} :
           /\ logger' = TRUE
           /\ panicked' = (g.err # "ok")
           /\ \E e \in (IF g.err = "There's no next block" THEN UnwrittenNext ELSE {g.err}) :
                  failure' = IF g.err # "ok"
                             THEN Some([err |-> e, frame |-> 0, via |-> "init"])
                             ELSE failure
           /\ once' = IF g.err = "ok" THEN c.once ELSE once
           /\ ctx' = IF g.err = "ok" THEN c.value ELSE ctx
           /\ boot_bitmap' = IF g.err = "ok" THEN g.allocator.bitmap ELSE boot_bitmap
           /\ bootstrap' = IF g.err = "ok" THEN g.bootstrap ELSE bootstrap
           /\ attempt' = IF g.err # "ok" THEN "panicked" ELSE "published"
    /\ cpu' = [cpu EXCEPT !.pc = "main"]
    /\ UNCHANGED <<memory_map, access, calls, legacy, mapping_refs, regions, owned, direct,
                   borrowed, released, pattern, lock, pf, lock_vars, pure_vars>>

\* main.rs: apic::apic_init(&mut acpi, apic) enters without_interrupts
ApicInitEnter ==
    /\ Running("main")
    /\ \E info \in ApicInfos(memory_map) :
        cpu' = [cpu EXCEPT !.pc = "lapic_handover", !.info = Some(info),
                           !.saved = cpu.interrupts,
                           !.interrupts = without_interrupts(cpu.interrupts)]
    /\ Untouched

\* mmap_dev(frame, false).expect("Failed to identity map"), the guard
\* dropped; the caller goes on at pc when expect lets it
MmapDevExpect(frame, pc, io_apics) ==
    \E r \in {mmap_dev(memory_map, ctx, frame, FALSE)} :
        /\ ctx' = r.ctx
        /\ panicked' = (r.res = "panic" \/ ~expect(r.res))
        /\ failure' = IF r.res # "ok"
                      THEN Some([err |-> r.err, frame |-> frame, via |-> "direct"])
                      ELSE failure
        /\ direct' = IF r.res = "ok" THEN direct \cup {frame} ELSE direct
        /\ cpu' = IF r.res = "panic" \/ ~expect(r.res) THEN cpu
                  ELSE [cpu EXCEPT !.pc = pc, !.io_apics = io_apics]
        /\ UNCHANGED <<memory_map, mapping_refs, bootstrap, regions, owned, borrowed, released,
                       pattern, boot_bitmap, calls, legacy, once, lock, logger, pf, attempt,
                       access, lock_vars, pure_vars>>

\* lapic_handover: the mmap_dev of the local APIC's frame
LapicMmapDev ==
    /\ Running("lapic_handover")
    /\ MmapDevExpect(cpu.info[1].local_apic_address, "pics_lock", cpu.io_apics)

\* lapic_handover: interrupts::PICS.lock()
LapicPicsLock ==
    /\ Running("pics_lock")
    /\ \E g \in {Mutex_lock(cpu.PICS.guard)} :
        cpu' = IF g = Spinning THEN [cpu EXCEPT !.pc = "spinning"]
               ELSE [cpu EXCEPT !.pc = "apic_handover", !.PICS.guard = Some("apic_init")]
    /\ Untouched

\* InterruptController::apic_handover(base_address): *self = Apic, then
\* self.init(); the guard dropped at the statement's end
ApicHandover ==
    /\ Running("apic_handover")
    /\ \E controller \in {<<"Apic", cpu.info[1].local_apic_address>>} :
        cpu' = [cpu EXCEPT !.pc = "io_apics",
                           !.PICS = [guard |-> None, controller |-> controller],
                           !.touched = @ \cup InterruptController_init(controller, ctx.mapper)]
    /\ Untouched

\* apic_init: one turn of the loop over info.io_apics
IoApicMmapDev ==
    /\ Running("io_apics")
    /\ Len(cpu.io_apics) < Len(cpu.info[1].io_apics)
    /\ \E frame \in {cpu.info[1].io_apics[Len(cpu.io_apics) + 1]} :
        MmapDevExpect(frame, "io_apics", Append(cpu.io_apics, frame))

\* apic_init: get_entry and set_entry for the timer and the keyboard, on
\* the IOApic get_interrupt_ioapic picks; io_apics[0] panics on an empty
\* list, redir_entry when the register read gives too small a count
SetEntries ==
    /\ Running("io_apics")
    /\ Len(cpu.io_apics) = Len(cpu.info[1].io_apics)
    /\ IF cpu.io_apics = <<>>
       THEN /\ panicked' = TRUE
            /\ failure' = Some([err |-> "index out of bounds", frame |-> 0, via |-> "apic_init"])
            /\ UNCHANGED cpu
       ELSE \E idx \in DOMAIN cpu.io_apics :
            \E in_bounds \in BOOLEAN :
                /\ panicked' = ~in_bounds
                /\ failure' = IF in_bounds THEN failure
                              ELSE Some([err |-> "Out of bounds", frame |-> cpu.io_apics[idx],
                                         via |-> "apic_init"])
                /\ cpu' = [cpu EXCEPT !.pc = IF in_bounds THEN "leave" ELSE @,
                                      !.touched = @ \cup {Touch(ctx.mapper, cpu.io_apics[idx],
                                                               "redir")}]
    /\ UNCHANGED <<memory_map, ctx, mapping_refs, bootstrap, regions, owned, direct, borrowed,
                   released, pattern, boot_bitmap, calls, legacy, once, lock, logger, pf, attempt,
                   access, lock_vars, pure_vars>>

\* without_interrupts: the flag restored when the closure returns
ApicInitLeave ==
    /\ Running("leave")
    /\ cpu' = [cpu EXCEPT !.pc = "done", !.interrupts = cpu.saved]
    /\ Untouched

\* the timer or the keyboard interrupt is delivered: through an interrupt
\* gate, so the handler runs with interrupts disabled
Interrupt ==
    /\ cpu.interrupts /\ cpu.isr = None
    /\ \E irq \in {"Timer", "Keyboard"} :
        cpu' = [cpu EXCEPT !.interrupts = FALSE, !.isr = Some([irq |-> irq, pc |-> "lock"])]
    /\ Untouched

\* timer_interrupt_handler, keyboard_interrupt_handler: PICS.lock()
HandlerPicsLock ==
    /\ cpu.isr # None /\ cpu.isr[1].pc = "lock"
    /\ \E g \in {Mutex_lock(cpu.PICS.guard)} :
        cpu' = IF g = Spinning THEN [cpu EXCEPT !.isr[1].pc = "spinning"]
               ELSE [cpu EXCEPT !.isr[1].pc = "eoi", !.PICS.guard = Some(cpu.isr[1].irq)]
    /\ Untouched

\* the handlers: notify_end_of_interrupt on the guard, the guard dropped,
\* the return from the interrupt
HandlerReturn ==
    /\ cpu.isr # None /\ cpu.isr[1].pc = "eoi"
    /\ cpu' = [cpu EXCEPT !.isr = None, !.interrupts = TRUE, !.PICS.guard = None,
                          !.touched = @ \cup notify_end_of_interrupt(cpu.PICS.controller,
                                                                     ctx.mapper)]
    /\ Untouched

ApicNext ==
    \/ PicsLock
    \/ PicsInit
    \/ InterruptsEnable
    \/ InitMemory
    \/ ApicInitEnter
    \/ LapicMmapDev
    \/ LapicPicsLock
    \/ ApicHandover
    \/ IoApicMmapDev
    \/ SetEntries
    \/ ApicInitLeave
    \/ Interrupt
    \/ HandlerPicsLock
    \/ HandlerReturn

SpecApic == ApicStart /\ [][ApicNext]_vars

\* C35: code outside the interrupt handlers holds the PICS lock only while
\* interrupts are disabled, and the PICS.lock() of the timer and keyboard
\* handlers never finds the lock held (no handler spins on it)
C35_PicsLockNeverBlocksHandler ==
    /\ cpu.PICS.guard \in {Some("init"), Some("apic_init")} => ~cpu.interrupts
    /\ cpu.isr # None => cpu.isr[1].pc # "spinning"
    /\ cpu.pc # "spinning"

\* a handler took the PICS lock after the hand-over to the APIC, and one
\* took it before apic_init was entered: both controllers were notified
C35_Witness ==
    /\ cpu.isr # None /\ cpu.isr[1].pc = "eoi"
    /\ cpu.PICS.controller[1] = "Apic"
    /\ cpu.pc = "done"

\* ------------------------------------------------------------------------
\* Properties
\* ------------------------------------------------------------------------
\* the frames the bootstrap pass handed out: the first bootstrap.next
\* entries of its iterator
BootstrapFrames ==
    {bootstrap_usable_frames(memory_map)[j][1] : j \in 1..bootstrap.next}

\* the frames some allocate_frame call handed out and that are still held
HeldFrames == owned \cup (ctx.mapper.table_frames \ BootstrapFrames)

\* C1: the frames allocate_frame returned since the last deallocate_frame
\* are pairwise distinct (none was returned twice) and each lies in a
\* Usable region of the memory map.
C1_NeverDoubleAllocate ==
    /\ ~ctx.allocator.h.dup
    /\ \A f \in ctx.allocator.h.since : TrueType(memory_map, f) = "Usable"

\* two frames were handed out in a row, one of them to back a page table
C1_Witness ==
    /\ Cardinality(ctx.allocator.h.since) >= 2
    /\ ctx.allocator.h.since \cap ctx.mapper.table_frames # {}
    /\ ctx.allocator.h.since \cap owned # {}

\* C2: every frame the bootstrap allocator handed out during init (bitmap
\* storage and the page tables mapping it) is marked used in the bitmap,
\* in every later state, and no allocate_frame call returns one of them.
C2_BootstrapConsistency ==
    \A f \in BootstrapFrames :
        /\ is_used(ctx.allocator, f)
        /\ f \notin ctx.allocator.h.since
        /\ f \notin owned
        /\ ctx.allocator.h.last # Some(f)

\* the bootstrap pass took frames of two regions (one bitmap frame and
\* three page-table frames) and the steady-state allocator went on from there
C2_Witness ==
    /\ Cardinality({b \in 1..Len(memory_map) : bootstrap.used[b] # 0}) = 2
    /\ bootstrap.next = 4
    /\ Cardinality(ctx.mapper.table_frames \cap BootstrapFrames) = 3
    /\ ctx.allocator.h.last # None

\* C3: whatever calls were made (allocate_frame, deallocate_frame, registry
\* map and unmap, mmap_dev), no allocate_frame call returned a frame outside
\* the Usable regions of the memory map.
C3_NeverAllocateReserved ==
    /\ ctx.allocator.h.last # None => TrueType(memory_map, ctx.allocator.h.last[1]) = "Usable"
    /\ \A f \in HeldFrames : TrueType(memory_map, f) = "Usable"

\* a frame was handed out after a registry release gave a Reserved frame
\* back with deallocate_frame, while a directly mapped device frame exists
C3_Witness ==
    /\ ctx.allocator.h.last # None
    /\ direct # {}
    /\ \E r \in released : TrueType(memory_map, r.frame) = "Reserved" /\ ~r.used_after


IsMapped(mapper, frame) ==
    /\ PhysPage(frame) \in DOMAIN mapper.pt
    /\ mapper.pt[PhysPage(frame)].frame = frame

\* C4: refcount idempotence.  From a frame without an entry, map, map,
\* unmap, unmap leaves the frame identity-mapped after the first three calls
\* and unmapped after the fourth, and the page tables are then what a single
\* map followed by a single unmap leaves.
C4_RefcountIdempotence ==
    /\ pattern.stage \in {1, 2, 3} => IsMapped(ctx.mapper, pattern.frame)
    /\ pattern.stage = 4 =>
          /\ PhysPage(pattern.frame) \notin DOMAIN ctx.mapper.pt
          /\ pattern.frame \notin DOMAIN mapping_refs
          /\ ctx.mapper.pt = pattern.expect.pt
          /\ ctx.mapper.tables = pattern.expect.tables

\* the four calls were made on a frame whose mapping needed a new page table
C4_Witness ==
    /\ pattern.stage = 4
    /\ ctx.mapper.table_frames \ BootstrapFrames # {}

\* C5: a frame has an entry in mapping_refs exactly when the identity
\* mapping the registry made for it is installed, and every entry has a
\* reference count of at least 1.
C5_RegistryInvariant ==
    /\ DOMAIN mapping_refs =
          {p.n : p \in {q \in DOMAIN ctx.mapper.pt : q.win = "phys"}} \ direct
    /\ \A k \in DOMAIN mapping_refs :
          /\ mapping_refs[k].rc >= 1
          /\ IsMapped(ctx.mapper, k)
          /\ mapping_refs[k].guard.page = PhysPage(k)

\* an entry is shared, another frame has just been released
C5_Witness ==
    /\ \E k \in DOMAIN mapping_refs : mapping_refs[k].rc = 2
    /\ \E r \in released : r.frame \notin DOMAIN mapping_refs
    /\ ~panicked

\* the frames map_physical_region walks for a request
RequestFrameSet(req) == containing_address(req[1])..containing_address(req[1] + req[2])

\* C6: overlap-safe range mapping.  Two range requests over frames without
\* entries that share exactly one frame leave it with reference count 2;
\* dropping the first range leaves it mapped with count 1 and unmaps the
\* frames only the dropped range covered.
C6_OverlapSafe ==
    ~panicked =>
    \A ra, rb \in RegionRequests(memory_map) :
        LET fa == RequestFrameSet(ra)
            fb == RequestFrameSet(rb)
            A == map_physical_region(memory_map, State, ra[1], ra[2])
            B == map_physical_region(memory_map, A.s, rb[1], rb[2])
            R == unmap_physical_region(B.s, A.region)
        IN  (/\ Cardinality(fa \cap fb) = 1
             /\ (fa \cup fb) \cap DOMAIN mapping_refs = {}
             /\ ~B.s.panicked)
            => \A shared \in fa \cap fb :
                 /\ B.s.mapping_refs[shared].rc = 2
                 /\ ~R.panicked
                 /\ shared \in DOMAIN R.mapping_refs
                 /\ R.mapping_refs[shared].rc = 1
                 /\ IsMapped(R.ctx.mapper, shared)
                 /\ \A x \in fa \ fb :
                       /\ x \notin DOMAIN R.mapping_refs
                       /\ PhysPage(x) \notin DOMAIN R.ctx.mapper.pt
                 /\ \A x \in fb : IsMapped(R.ctx.mapper, x)

\* two ranges that share exactly one frame are both mapped
C6_Witness ==
    /\ ~panicked
    /\ \E ra, rb \in BagToSet(regions) :
          /\ Cardinality(RegionFrameSet(ra) \cap RegionFrameSet(rb)) = 1
          /\ \A k \in RegionFrameSet(ra) \cap RegionFrameSet(rb) : mapping_refs[k].rc = 2
          /\ \A k \in (RegionFrameSet(ra) \cup RegionFrameSet(rb)) \
                       (RegionFrameSet(ra) \cap RegionFrameSet(rb)) : mapping_refs[k].rc = 1

\* C7: a frame of a Reserved region that was mapped through the registry
\* and released is not handed out by allocate_frame afterwards.
C7_ReservedNeverPooled ==
    \A r \in released :
        TrueType(memory_map, r.frame) = "Reserved" =>
            /\ r.frame \notin HeldFrames
            /\ r.frame \notin ctx.allocator.h.since
            /\ ctx.allocator.h.last # Some(r.frame)
            /\ allocate_frame(memory_map, ctx.allocator).frame # Some(r.frame)

\* the release deallocated a Reserved frame and allocate_frame ran after it
C7_Witness ==
    /\ \E r \in released : TrueType(memory_map, r.frame) = "Reserved" /\ ~r.used_after
    /\ ctx.allocator.h.since # {}

\* the releases of general RAM a caller obtained from allocate_frame (and
\* that was marked used) before it was mapped, and still holds
ReleasedOwnedRam ==
    {r \in released : /\ TrueType(memory_map, r.frame) = "Usable"
                       /\ r.owned_at_map
                       /\ r.owned}

C9_NoneOnlyWhenExhausted == ~ctx.allocator.h.starved


RECURSIVE Ascending(_)
Ascending(S) == IF S = {} THEN <<>> ELSE <<Min(S)>> \o Ascending(S \ {Min(S)})

\* what the k-th call returns when the frames of seq are handed out in order
Nth(seq, k) == IF k <= Len(seq) THEN Some(seq[k]) ELSE None

TrulyUsable == {f \in MapFrames(memory_map) : TrueType(memory_map, f) = "Usable"}

\* C10 as stated: on the scenario map nine allocate_frame calls return
\* 0x0, 0x1000, ..., 0x8000 and the tenth returns 0xA000.
C10_Original ==
    Len(calls) >= 10 =>
        /\ \A k \in 1..9 : calls[k] = Some(k - 1)
        /\ calls[10] = Some(10)

\* C10 as amended: frames are handed out in ascending address order over the
\* Usable regions, skipping the other regions and the frames init left
\* marked (those the bootstrap pass took, stale bits); the allocator without
\* a bitmap returns 0x0 .. 0x8000 and then 0xA000.
C10_AllocationOrder ==
    /\ \A k \in 1..Len(calls) : calls[k] = Nth(Ascending(TrulyUsable \ boot_bitmap), k)
    /\ \A k \in 1..Len(legacy.calls) : legacy.calls[k] = Nth(Ascending(TrulyUsable), k)
    /\ Len(legacy.calls) >= 10 =>
          /\ \A k \in 1..9 : legacy.calls[k] = Some(k - 1)
          /\ legacy.calls[10] = Some(10)
    /\ BootstrapFrames = 0..3 /\ BootstrapFrames \subseteq boot_bitmap

\* both allocators went past the Reserved frame
C10_Witness ==
    /\ memory_map = MapScenario
    /\ Len(legacy.calls) = 10
    /\ \E k \in 1..(Len(calls) - 1) : calls[k] = Some(8) /\ calls[k + 1] = Some(10)

\* C11 as stated: an attempt to initialize PAGING_CTX once it is published
\* panics; it is never accepted silently and never replaces the context.
C11_SecondInitFailsLoudly == attempt # "ignored"

\* C12: the page-fault handler never spins on the lock of PAGING_CTX; once
\* it has run it sits in hlt_loop, and it printed the translation exactly
\* when PAGING_CTX was published and try_lock found the Mutex free.
C12_FaultHandlerNeverBlocks ==
    /\ pf.pc \in {"idle", "halted"}
    /\ pf.pc = "halted" =>
          (pf.diag # <<"skipped">> <=> (pf.once_at = "complete" /\ pf.lock_at = None))

\* a fault struck while mmap_dev held the lock, the handler reached hlt_loop
C12_Witness ==
    /\ pf.pc = "halted"
    /\ pf.lock_at # None
    /\ pf.diag = <<"skipped">>

\* C13: when every mapping of a frame goes through the registry (the frame
\* was never mapped by a direct mmap_dev caller), no call fails with
\* PageAlreadyMapped, whatever the sequence of map and unmap calls:
\* identity_map is attempted only for a frame that has no registry entry.
C13_NoPageAlreadyMapped ==
    (failure # None /\ failure[1].err = "PageAlreadyMapped")
        => (failure[1].via = "direct" \/ failure[1].frame \in direct)

\* a frame only the registry maps is mapped a second time: the count is
\* raised and nothing failed
C13_Witness ==
    /\ ~panicked
    /\ \E k \in DOMAIN mapping_refs :
           k \notin direct /\ mapping_refs[k].rc >= 2 /\ PhysPage(k) \in DOMAIN ctx.mapper.pt

\* C14: Handler::unmap of a page that has no registry entry (never mapped, or
\* already fully released) is fatal and never silently ignored: it panics
\* and leaves the registry, the page table and the frame bitmap unchanged.
C14_UnmapWithoutEntryIsFatal ==
    ~panicked =>
        \A f \in (MapFrames(memory_map) \cup RequestFrames(memory_map)) \ DOMAIN mapping_refs :
            LET s == Handler_unmap(State, PhysPage(f))
            IN  /\ s.panicked
                /\ s.failure = Some([err |-> "Trying to unmap non mapped frame", frame |-> f,
                                     via |-> "registry"])
                /\ s.mapping_refs = mapping_refs
                /\ s.ctx.mapper = ctx.mapper
                /\ s.ctx.allocator.bitmap = ctx.allocator.bitmap

\* the kernel panicked in Handler::unmap on a page that has no entry, with
\* other entries in the registry
C14_Witness ==
    /\ panicked
    /\ failure # None
    /\ failure[1].err = "Trying to unmap non mapped frame"
    /\ failure[1].frame \notin DOMAIN mapping_refs
    /\ DOMAIN mapping_refs # {}

\* C15 as stated: mmap_dev of a frame that lies inside a Usable (general
\* RAM) region is fatal, it panics and installs no mapping, for every such
\* frame, the frames that are not the first of their region included: no
\* identity mapping of a Usable frame is ever installed.
C15_UsableFrameNeverMapped ==
    \A p \in DOMAIN ctx.mapper.pt :
        p.win = "phys" => TrueType(memory_map, p.n) # "Usable"

\* C16 as stated: the bitmap store built by init covers every frame of the
\* memory map, whatever the order of the regions in the map: for every
\* frame number inside any region, is_used / mark_used / mark_unused find a
\* bitmap block and never hit the "There's no next block" panic.
C16_BitmapCoversEveryFrame ==
    /\ (once = "complete" /\ bootstrap.next > 0)
           => \A f \in MapFrames(memory_map) : Covered(ctx.allocator, f)
    /\ failure # None => failure[1].err \notin UnwrittenNext

\* the Usable, unmarked frames at or after the cursor
Candidates ==
    {f \in MapFrames(memory_map) :
        /\ TrueType(memory_map, f) = "Usable"
        /\ f >= ctx.allocator.next_usable
        /\ ~is_used(ctx.allocator, f)}

\* C17: allocate_frame returns the lowest-numbered frame at or after the
\* cursor (next_usable) that is Usable and unmarked, marks exactly that frame
\* used and sets the cursor to it; no other bit of the bitmap changes.
C17_AllocateLowestAfterCursor ==
    LET r == allocate_frame(memory_map, ctx.allocator)
    IN  Candidates # {} =>
            /\ r.frame = Some(Min(Candidates))
            /\ r.a.bitmap = ctx.allocator.bitmap \cup {Min(Candidates)}
            /\ r.a.next_usable = Min(Candidates)

\* the latest call returned a frame although a Usable frame below it, and
\* below the cursor, is unmarked; the next call has a frame to return
C17_Witness ==
    /\ ctx.allocator.h.last # None
    /\ ctx.allocator.h.last[1] = ctx.allocator.next_usable
    /\ \E f \in MapFrames(memory_map) :
           /\ TrueType(memory_map, f) = "Usable"
           /\ f < ctx.allocator.next_usable
           /\ ~is_used(ctx.allocator, f)
    /\ Candidates # {}

\* C18 as stated: get_frame_ty classifies a frame by containment: it returns
\* the type of the region whose range [start_addr, end_addr) contains the
\* frame's start address, for every frame of the region and not only its
\* first, and none when no region contains it.
C18_FrameTypeByContainment ==
    \A f \in MapFrames(memory_map) \cup RequestFrames(memory_map) :
        get_frame_ty(memory_map, f) =
            IF TrueType(memory_map, f) = "none" THEN None
            ELSE Some(TrueType(memory_map, f))

\* C19 as stated: the deallocate-on-release flag of an UnmapGuard is set
\* exactly when the frame was not marked in use before the mapping request
\* began (the mapping itself, the page-table frames it allocates included,
\* never changes the answer), and releasing the guard removes the page and
\* then calls deallocate_frame on the frame if and only if the flag is set.
C19_FlagFromStateBeforeMapping ==
    (once = "complete" /\ ~panicked /\ lock = None) =>
        \A f \in ApicFrames(memory_map) :
            LET r == mmap_dev(memory_map, ctx, f, FALSE)
                u == unmap(r.ctx, r.guard)
            IN  r.res = "ok" =>
                    /\ r.guard.unmap_frame <=> ~frame_in_use(ctx.allocator, f)
                    /\ u.res = "ok"
                    /\ PhysPage(f) \notin DOMAIN u.ctx.mapper.pt
                    /\ u.ctx.allocator.bitmap =
                           IF r.guard.unmap_frame THEN r.ctx.allocator.bitmap \ {f}
                           ELSE r.ctx.allocator.bitmap

\* C20 as stated: after initialization every frame of a region whose type
\* is not Usable, Reserved, AcpiReclaimable or FrameZero is marked used,
\* while FrameZero and AcpiReclaimable frames are left unmarked.
C20_InitMarksByRegionType ==
    \A f \in MapFrames(memory_map) :
        /\ TrueType(memory_map, f) \notin {"Usable", "Reserved", "AcpiReclaimable", "FrameZero"}
               => f \in boot_bitmap
        /\ TrueType(memory_map, f) \in {"FrameZero", "AcpiReclaimable"}
               => f \notin boot_bitmap

\* C21: Handler::map on a frame that already has an entry only raises that
\* entry's reference count: the page tables, the allocator (bitmap and
\* cursor) and every other entry are left as they were, and nothing fails.
C21_MapOnEntryOnlyCounts ==
    ~panicked =>
        \A k \in DOMAIN mapping_refs :
            LET s == Handler_map(memory_map, State, k)
            IN  /\ s.ctx = ctx
                /\ ~s.panicked
                /\ DOMAIN s.mapping_refs = DOMAIN mapping_refs
                /\ s.mapping_refs[k] = [mapping_refs[k] EXCEPT !.rc = @ + 1]
                /\ \A j \in (DOMAIN mapping_refs) \ {k} : s.mapping_refs[j] = mapping_refs[j]

\* map was called twice in a row on one frame while another frame has an entry
C21_Witness ==
    /\ pattern.stage = 2
    /\ mapping_refs[pattern.frame].rc = 2
    /\ DOMAIN mapping_refs # {pattern.frame}
    /\ ~panicked

\* C22: deallocate_frame(frame) clears the used bit of exactly that frame:
\* every other bit of the bitmap and the cursor are unchanged, and on a frame
\* that is already free it changes nothing.
C22_DeallocateClearsOneBit ==
    \A f \in {g \in MapFrames(memory_map) : Covered(ctx.allocator, g)} :
        LET a == deallocate_frame(ctx.allocator, f)
        IN  /\ a.bitmap = ctx.allocator.bitmap \ {f}
            /\ a.next_usable = ctx.allocator.next_usable
            /\ a.blocks = ctx.allocator.blocks
            /\ ~is_used(ctx.allocator, f) => a.bitmap = ctx.allocator.bitmap

\* the frame the cursor stands on, which allocate_frame had marked, was
\* given back while other frames are still held
C22_Witness ==
    /\ ctx.allocator.h.last # None
    /\ ctx.allocator.next_usable > 0
    /\ ~is_used(ctx.allocator, ctx.allocator.next_usable)
    /\ TrueType(memory_map, ctx.allocator.next_usable) = "Usable"
    /\ owned # {}

\* C23: once PAGING_CTX is published, every step that changes the page
\* tables or the bitmap (in mmap_dev, unmap, map_range, identity_map,
\* identity_unmap, the allocations they make included) is taken by the
\* operation that holds the lock of PAGING_CTX, and the lock is free again
\* when the operation has returned; only a panic inside keeps it.
C23_MutationsUnderLock ==
    [][(once = "complete" /\ ctx' # ctx)
           => /\ lock # None
              /\ lock[1].fn \in {"mmap_dev", "unmap", "map_range", "identity_map",
                                 "identity_unmap"}
              /\ (lock' = None \/ (panicked' /\ failure'[1].err \in
                                      {"Tried to mmap a device"} \cup UnwrittenNext))]_vars

\* operations have changed the page tables and returned: map_range mapped
\* the heap, identity_map mapped the device frame, and the lock is free
C23_Witness ==
    /\ lock = None /\ ~panicked
    /\ HeapPage(0) \in DOMAIN ctx.mapper.pt
    /\ PhysPage(16) \in DOMAIN ctx.mapper.pt
    /\ ctx.mapper.pt[PhysPage(16)].flags = {"PRESENT", "WRITABLE"}

\* C24: every identity mapping of device memory is made through the one
\* registry, no consumer calling mmap_dev beside it, so that a frame mapped
\* for one consumer can be requested by another and no request ends in
\* PageAlreadyMapped.
C24_OneRegistryForAllConsumers ==
    failure # None => failure[1].err # "PageAlreadyMapped"

\* C25: every mapping mmap_dev installed carries PRESENT, NO_CACHE and
\* WRITE_THROUGH; it is WRITABLE exactly when get_frame_ty classifies its
\* frame Reserved or FrameZero, and read-only when the frame is classified
\* KernelStack (which only a request with acpi = true maps).
C25_DeviceMappingFlags ==
    \A page \in DOMAIN ctx.mapper.pt :
        page.win = "phys" =>
            LET flags == ctx.mapper.pt[page].flags
                ty == get_frame_ty(memory_map, page.n)
            IN  /\ {"PRESENT", "NO_CACHE", "WRITE_THROUGH"} \subseteq flags
                /\ flags \subseteq {"PRESENT", "NO_CACHE", "WRITE_THROUGH", "WRITABLE"}
                /\ ty # None
                /\ "WRITABLE" \in flags <=> ty[1] \in {"Reserved", "FrameZero"}
                /\ ty[1] = "KernelStack" => "WRITABLE" \notin flags /\ page.n \notin direct

\* a frame classified KernelStack is mapped read-only through the registry
\* next to a writable mapping of a frame classified Reserved
C25_Witness ==
    /\ \E page \in DOMAIN ctx.mapper.pt :
           /\ page.win = "phys"
           /\ get_frame_ty(memory_map, page.n) = Some("KernelStack")
           /\ "WRITABLE" \notin ctx.mapper.pt[page].flags
    /\ \E page \in DOMAIN ctx.mapper.pt :
           /\ page.win = "phys"
           /\ get_frame_ty(memory_map, page.n) = Some("Reserved")
           /\ "WRITABLE" \in ctx.mapper.pt[page].flags

\* C26: once PAGING_CTX is published it is never replaced or destroyed:
\* the cell stays complete, a later call_once leaves the context of the
\* first initialization in it (the bitmap and bootstrap pass it was built
\* from are those of the first), and the context changes only through the
\* operations that hold its lock.
C26_PublishedContextStays ==
    [][once = "complete"
           => /\ once' = "complete"
              /\ boot_bitmap' = boot_bitmap
              /\ bootstrap' = bootstrap
              /\ lock = None => ctx' = ctx]_vars

\* init published its context, operations changed it under the lock, and a
\* later call_once with a fresh context was ignored
C26_Witness ==
    /\ attempt = "ignored" /\ logger /\ ~panicked
    /\ bootstrap.next > 0
    /\ ctx.allocator.bitmap # boot_bitmap
    /\ direct # {}

\* C27: every volatile read or write of the ACPI/AML handler comes after a
\* registry map of the frame that contains the address: when the access is
\* made, that frame has an entry in the registry and is identity-mapped.
C27_AccessAfterMap ==
    access # None =>
        /\ access[1].entry
        /\ access[1].mapped

\* a write was made at an address whose frame the registry counts once,
\* while the registry holds another frame too
C27_Witness ==
    /\ access # None /\ access[1].op = "write" /\ access[1].entry /\ access[1].mapped
    /\ containing_address(access[1].address) \in DOMAIN mapping_refs
    /\ mapping_refs[containing_address(access[1].address)].rc = 1
    /\ Cardinality(DOMAIN mapping_refs) = 2

\* C28: map_physical_region followed by unmap_physical_region of the region
\* it returned is a round trip: the registry is asked to map each frame of
\* the inclusive range once and to unmap each of the same frames once, and
\* afterwards every frame's reference count and mapped state are what they
\* were before.
C28_RegionRoundTrip ==
    ~panicked =>
    \A req \in RegionRequests(memory_map) :
        LET M == map_physical_region(memory_map, State, req[1], req[2])
            U == unmap_physical_region(M.s, M.region)
            rc(refs, k) == IF k \in DOMAIN refs THEN refs[k].rc ELSE 0
            frames == RequestFrameSet(req)
        IN  ~M.s.panicked =>
                /\ ~U.panicked
                /\ RegionFrameSet(M.region) = frames
                /\ \A k \in frames : rc(M.s.mapping_refs, k) = rc(mapping_refs, k) + 1
                /\ \A k \in frames : rc(U.mapping_refs, k) = rc(mapping_refs, k)
                /\ U.mapping_refs = mapping_refs
                /\ U.ctx.mapper.pt = ctx.mapper.pt

\* a region of two frames was mapped and dropped again while another
\* request kept one of its frames: the drop released one frame only
C28_Witness ==
    /\ ~panicked
    /\ Cardinality(released) = 1
    /\ \E k \in DOMAIN mapping_refs : k + 1 \in {r.frame : r \in released}

\* C29: map_range, when it succeeds, maps every page of the range to a
\* freshly allocated frame: each backing frame was unmarked before the call
\* and is marked after it, the backing frames are pairwise distinct, and
\* none of them is a frame that backs a page table.
C29_MapRangeFreshFrames ==
    (once = "complete" /\ lock = None /\ ~panicked) =>
    \A n \in 1..MaxPages :
        LET r == map_range(memory_map, ctx, HeapRange(n), {"PRESENT", "WRITABLE"})
        IN  r.res = "ok" =>
                /\ Len(r.backing) = n
                /\ \A i \in 1..n :
                       /\ r.ctx.mapper.pt[HeapPage(i - 1)].frame = r.backing[i]
                       /\ ~is_used(ctx.allocator, r.backing[i])
                       /\ is_used(r.ctx.allocator, r.backing[i])
                       /\ r.backing[i] \notin r.ctx.mapper.table_frames
                       /\ TrueType(memory_map, r.backing[i]) = "Usable"
                /\ \A i, j \in 1..n : r.backing[i] = r.backing[j] => i = j

\* map_range has mapped MaxPages pages of the heap, allocating page tables
\* on the way, after a device frame was mapped
C29_Witness ==
    /\ ~panicked /\ lock = None
    /\ HeapPage(MaxPages - 1) \in DOMAIN ctx.mapper.pt
    /\ Cardinality(owned) = MaxPages
    /\ TableOf(HeapPage(0), 1) \in ctx.mapper.tables
    /\ direct # {}

\* the frames of region i of the memory map that the bootstrap allocator
\* handed out
ReturnedFrom(i) ==
    {bootstrap.returned[k] : k \in {j \in 1..Len(bootstrap.returned) :
        /\ memory_map[i].start_frame_number <= bootstrap.returned[j]
        /\ bootstrap.returned[j] < memory_map[i].end_frame_number}}

\* C30: the bootstrap allocator hands out Usable frames in address order,
\* each at most once; used[i] is the number of frames it handed out from
\* region i of the memory map, and those are the first used[i] frames of
\* the region; a call that finds no frame leaves next and used as they were.
C30_BootstrapOrderAndCounts ==
    /\ Len(bootstrap.returned) = bootstrap.next
    /\ \A j, k \in 1..Len(bootstrap.returned) :
           j < k => bootstrap.returned[j] < bootstrap.returned[k]
    /\ \A k \in 1..Len(bootstrap.returned) :
           TrueType(memory_map, bootstrap.returned[k]) = "Usable"
    /\ \A i \in 1..Len(memory_map) :
           /\ bootstrap.used[i] = Cardinality(ReturnedFrom(i))
           /\ ReturnedFrom(i) = {memory_map[i].start_frame_number + n - 1 :
                                     n \in 1..bootstrap.used[i]}
    /\ LET r == bootstrap_allocate_frame(memory_map, bootstrap)
       IN  r.frame = None => r.a.next = bootstrap.next /\ r.a.used = bootstrap.used

\* every Usable frame of a map with two Usable regions was handed out, and
\* a further call found none
C30_Witness ==
    /\ bootstrap.refused
    /\ bootstrap.next = Len(bootstrap_usable_frames(memory_map))
    /\ Cardinality({i \in 1..Len(memory_map) : bootstrap.used[i] > 1}) = 2

\* C31: right after GlobalFrameAllocator::init a frame's used bit is set
\* only if the bootstrap allocator consumed the frame or the frame lies in
\* a region init marks used; every other frame, the untouched Usable ones
\* in particular, is unmarked, whatever the frames backing the bitmap held.
C31_InitBitmapExact ==
    \A f \in boot_bitmap :
        \/ f \in BootstrapFrames
        \/ TrueType(memory_map, f) \notin {"Usable", "Reserved", "AcpiReclaimable", "FrameZero"}

\* the frames that hold at least one byte of [physical_address,
\* physical_address + size)
ExactFrames(req) == containing_address(req[1])..containing_address(req[1] + req[2] - 1)

\* C32: map_physical_region(addr, size) with size > 0 registers exactly the
\* frames that hold a byte of [addr, addr + size), none beyond the frame of
\* byte addr + size - 1, also when addr + size is frame-aligned: the frames
\* a PhysicalMapping covers are those of some request's bytes, and every
\* registered frame holds a byte some request asked for.
C32_RegionMapsExactFrames ==
    /\ \A region \in BagToSet(regions) :
           \E req \in RegionRequests(memory_map) : RegionFrameSet(region) = ExactFrames(req)
    /\ \A k \in DOMAIN mapping_refs :
           \/ k \in RequestFrames(memory_map)
           \/ \E req \in RegionRequests(memory_map) : k \in ExactFrames(req)

\* C33: a read or write of the ACPI handler at an address whose frame is
\* already registered leaves that frame's reference count as it was (only
\* the first touch maps), so that counts stay equal to the number of map
\* requests not yet released.
C33_AccessKeepsCount ==
    ~panicked =>
    \A address \in AccessAddresses(memory_map), op \in {"read", "write"} :
        LET key == containing_address(address)
            r == Handler_access(memory_map, State, address, op)
        IN  key \in DOMAIN mapping_refs
                => r.s.mapping_refs[key].rc = mapping_refs[key].rc

\* C34: under any sequence of allocate_frame and deallocate_frame calls
\* (the ones the mapper makes included) the cursor next_usable never
\* decreases, and it holds either 0 or the number of the frame allocated
\* most recently.
C34_CursorMonotonic ==
    [][/\ ctx'.allocator.next_usable >= ctx.allocator.next_usable
       /\ \/ ctx'.allocator.next_usable = 0
          \/ ctx'.allocator.h.recent = Some(ctx'.allocator.next_usable)]_vars

\* frames were allocated, a frame below the cursor was given back, and a
\* later allocation went on above the cursor leaving the freed frame free
C34_Witness ==
    /\ ctx.allocator.h.recent = Some(ctx.allocator.next_usable)
    /\ ctx.allocator.h.last = ctx.allocator.h.recent
    /\ ctx.allocator.h.since # {}
    /\ \E f \in MapFrames(memory_map) :
           /\ f < ctx.allocator.next_usable
           /\ f \notin boot_bitmap
           /\ TrueType(memory_map, f) = "Usable"
           /\ ~is_used(ctx.allocator, f)
           /\ f \notin ctx.allocator.h.since

\* C37: during the APIC bring-up every register of the local APIC and of
\* an IO APIC is read or written only while the frame of that controller's
\* base address is identity-mapped: the controller is in Apic mode only
\* with the local APIC's frame mapped by a successful mmap_dev, and the
\* redirection entries are accessed only on a mapped IO APIC
C37_MappedBeforeTouched ==
    /\ \A t \in cpu.touched : t.mapped
    /\ cpu.PICS.controller[1] = "Apic" =>
           /\ cpu.PICS.controller[2] \in direct
           /\ Touch(ctx.mapper, cpu.PICS.controller[2], "siv").mapped
    /\ \A i \in DOMAIN cpu.io_apics :
           cpu.io_apics[i] \in direct /\ Touch(ctx.mapper, cpu.io_apics[i], "redir").mapped

\* the bring-up ran to its end on a local APIC and an IO APIC in different
\* frames: the spurious-interrupt register and a redirection entry were
\* accessed
C37_Witness ==
    /\ cpu.pc = "done"
    /\ \E t \in cpu.touched : t.reg = "siv" /\ t.frame = cpu.info[1].local_apic_address
    /\ \E t \in cpu.touched : t.reg = "redir" /\ t.frame # cpu.info[1].local_apic_address

\* ------------------------------------------------------------------------
\* The two locks, call by call: LockedHandler.inner around Handler::map
\* and Handler::unmap, PAGING_CTX around mmap_dev, unmap and map_range
\* ------------------------------------------------------------------------
\* the guard outlives the method
MutexGuard_kept(guard) == guard

\* the MutexGuard of inner, a temporary borrowed for the body of
\* LockedHandler::map and LockedHandler::unmap: dropped on return
MutexGuard_drop(guard) == None

\* the lock a function takes before anything else
LockOf(fn) ==
    IF fn \in {"LockedHandler::map", "LockedHandler::unmap"} THEN "inner" ELSE "PAGING_CTX"

\* the call of fn(arg) once its lock() gave g
Called(fn, arg, g) ==
    [fn |-> fn, arg |-> arg, pc |-> IF g = Spinning THEN "spinning" ELSE "locked"]

\* the locks held once lock() on the lock named gave g
Acquired(name, g) == IF g = Spinning THEN acquired ELSE Append(acquired, name)

\* the locks held once the guard of the lock named became guard
Released(name, guard) ==
    IF guard = None THEN SelectSeq(acquired, LAMBDA l : l # name) ELSE acquired

\* whether Handler::map or Handler::unmap goes on to mmap_dev or unmap
CallsPaging(fn, key) ==
    IF fn = "LockedHandler::map" THEN key \notin DOMAIN mapping_refs
    ELSE key \in DOMAIN mapping_refs /\ mapping_refs[key].rc - 1 = 0

\* what Handler::map or Handler::unmap calls under PAGING_CTX
Callee(fn, key) ==
    IF fn = "LockedHandler::map"
    THEN [fn |-> "mmap_dev", arg |-> [frame |-> key, acpi |-> TRUE]]
    ELSE [fn |-> "unmap", arg |-> mapping_refs[key].guard]

\* the calls made from outside the registry
DirectCalls(mm) ==
    {[fn |-> "mmap_dev", arg |-> [frame |-> frame, acpi |-> FALSE]] : frame \in ApicFrames(mm)}
        \cup {[fn |-> "map_range",
               arg |-> [range |-> HeapRange(n), flags |-> {"PRESENT", "WRITABLE"}]] :
                  n \in 1..MaxPages}

\* LockedHandler::map(frame), LockedHandler::unmap(page): self.inner.lock()
LockedHandlerCall ==
    /\ ~panicked /\ stack = <<>>
    /\ \E fn \in {"LockedHandler::map", "LockedHandler::unmap"} :
       \E frame \in RequestFrames(memory_map) :
       \E g \in {Mutex_lock(inner)} :
           /\ (fn = "LockedHandler::map" /\ frame \in DOMAIN mapping_refs)
                  => mapping_refs[frame].rc < MaxRc
           /\ stack' = <<Called(fn, frame, g)>>
           /\ inner' = IF g = Spinning THEN inner ELSE Some(fn)
           /\ acquired' = Acquired("inner", g)
    /\ UNCHANGED <<memory_map, ctx, mapping_refs, panicked, failure, bootstrap, regions, owned,
                   direct, borrowed, released, pattern, boot_bitmap, calls, legacy, once, lock,
                   logger, pf, attempt, access, cpu, pure_vars>>

\* inner.map(frame), inner.unmap(page) under the lock of the registry: the
\* count alone changes, or mmap_dev / unmap is called and takes PAGING_CTX
HandlerBody ==
    /\ ~panicked /\ Len(stack) = 1
    /\ stack[1].pc = "locked" /\ LockOf(stack[1].fn) = "inner"
    /\ IF CallsPaging(stack[1].fn, stack[1].arg)
       THEN \E callee \in {Callee(stack[1].fn, stack[1].arg)} :
            \E g \in {Mutex_lock(lock)} :
                /\ stack' = Append(stack, Called(callee.fn, callee.arg, g))
                /\ lock' = IF g = Spinning THEN lock ELSE Some([fn |-> callee.fn,
                                                                 arg |-> callee.arg])
                /\ acquired' = Acquired("PAGING_CTX", g)
                /\ UNCHANGED <<ctx, mapping_refs, panicked, failure, borrowed, released>>
       ELSE \E s \in {IF stack[1].fn = "LockedHandler::map"
                      THEN Handler_map(memory_map, State, stack[1].arg)
                      ELSE Handler_unmap(State, PhysPage(stack[1].arg))} :
                /\ Become(s)
                /\ stack' = IF s.panicked THEN stack ELSE <<[stack[1] EXCEPT !.pc = "return"]>>
                /\ UNCHANGED <<lock, acquired>>
    /\ UNCHANGED <<memory_map, bootstrap, regions, owned, direct, pattern, boot_bitmap, calls,
                   legacy, once, logger, pf, attempt, access, cpu, inner, pure_vars>>

\* mmap_dev or unmap called by the registry, from the lock of PAGING_CTX
\* to the return: the guard is dropped on return, the registry panics on
\* Err and inserts or has removed the entry on Ok
RegistryPaging ==
    /\ ~panicked /\ Len(stack) = 2 /\ stack[2].pc = "locked"
    /\ \E res \in {IF stack[2].fn = "mmap_dev"
                   THEN mmap_dev(memory_map, ctx, stack[1].arg, TRUE).res
                   ELSE unmap(ctx, stack[2].arg).res} :
       \E s \in {IF stack[2].fn = "mmap_dev"
                 THEN Handler_map(memory_map, State, stack[1].arg)
                 ELSE Handler_unmap(State, PhysPage(stack[1].arg))} :
       \E guard \in {Guard_drop(lock, res)} :
           /\ Become(s)
           /\ lock' = guard
           /\ acquired' = Released("PAGING_CTX", guard)
           /\ stack' = IF s.panicked THEN stack ELSE <<[stack[1] EXCEPT !.pc = "return"]>>
    /\ UNCHANGED <<memory_map, bootstrap, regions, owned, direct, pattern, boot_bitmap, calls,
                   legacy, once, logger, pf, attempt, access, cpu, inner, pure_vars>>

\* the return of LockedHandler::map and LockedHandler::unmap
LockedHandlerReturn ==
    /\ ~panicked /\ Len(stack) = 1
    /\ stack[1].pc = "return" /\ LockOf(stack[1].fn) = "inner"
    /\ \E guard \in {MutexGuard_drop(inner)} :
        /\ inner' = guard
        /\ acquired' = Released("inner", guard)
    /\ stack' = <<>>
    /\ UNCHANGED <<memory_map, ctx, mapping_refs, panicked, failure, bootstrap, regions, owned,
                   direct, borrowed, released, pattern, boot_bitmap, calls, legacy, once, lock,
                   logger, pf, attempt, access, cpu, pure_vars>>

\* mmap_dev(frame, false) of the interrupt-controller bring-up, map_range
\* of init_heap: PAGING_CTX.get().unwrap().lock()
DirectCall ==
    /\ ~panicked /\ stack = <<>>
    /\ \E op \in DirectCalls(memory_map) :
       \E g \in {Mutex_lock(lock)} :
           /\ stack' = <<Called(op.fn, op.arg, g)>>
           /\ lock' = IF g = Spinning THEN lock ELSE Some(op)
           /\ acquired' = Acquired("PAGING_CTX", g)
    /\ UNCHANGED <<memory_map, ctx, mapping_refs, panicked, failure, bootstrap, regions, owned,
                   direct, borrowed, released, pattern, boot_bitmap, calls, legacy, once,
                   logger, pf, attempt, access, cpu, inner, pure_vars>>

\* the rest of mmap_dev or map_range called from outside the registry;
\* both callers panic on Err
DirectPaging ==
    /\ ~panicked /\ Len(stack) = 1
    /\ stack[1].pc = "locked" /\ LockOf(stack[1].fn) = "PAGING_CTX"
    /\ \E r \in {IF stack[1].fn = "mmap_dev"
                 THEN mmap_dev(memory_map, ctx, stack[1].arg.frame, FALSE)
                 ELSE map_range(memory_map, ctx, stack[1].arg.range, stack[1].arg.flags)} :
       \E guard \in {Guard_drop(lock, r.res)} :
           /\ ctx' = r.ctx
           /\ panicked' = (r.res # "ok")
           /\ failure' = IF r.res # "ok"
                         THEN Some([err |-> r.err, frame |-> 0, via |-> "direct"])
                         ELSE failure
           /\ direct' = IF r.res = "ok" /\ stack[1].fn = "mmap_dev"
                        THEN direct \cup {stack[1].arg.frame} ELSE direct
           /\ owned' = IF stack[1].fn = "map_range"
                       THEN owned \cup {r.backing[i] : i \in 1..Len(r.backing)} ELSE owned
           /\ lock' = guard
           /\ acquired' = Released("PAGING_CTX", guard)
           /\ stack' = IF r.res # "ok" THEN stack ELSE <<>>
    /\ UNCHANGED <<memory_map, mapping_refs, bootstrap, regions, borrowed, released, pattern,
                   boot_bitmap, calls, legacy, once, logger, pf, attempt, access, cpu, inner, pure_vars>>

LocksNext ==
    \/ LockedHandlerCall
    \/ HandlerBody
    \/ RegistryPaging
    \/ LockedHandlerReturn
    \/ DirectCall
    \/ DirectPaging

SpecLocks == Init /\ [][LocksNext]_vars

\* C36: no lock() is called on a lock that is held (nothing spins), and the
\* locks held are, in the order they were acquired, none, one of the two,
\* or the registry's lock and then PAGING_CTX: PAGING_CTX is never held
\* longer than the registry's lock by a call made through the registry
C36_LockOrder ==
    /\ \A i \in DOMAIN stack : stack[i].pc # "spinning"
    /\ acquired \in {<<>>, <<"inner">>, <<"PAGING_CTX">>, <<"inner", "PAGING_CTX">>}
    /\ (inner # None) = (\E i \in DOMAIN acquired : acquired[i] = "inner")
    /\ (lock # None) = (\E i \in DOMAIN acquired : acquired[i] = "PAGING_CTX")
    /\ ~panicked /\ stack = <<>> => acquired = <<>>

\* both locks are held: unmap(guard) runs for the registry, whose entry for
\* the frame an earlier LockedHandler::map made under both locks as well
C36_Witness ==
    /\ Len(stack) = 2 /\ stack[2].fn = "unmap" /\ stack[2].pc = "locked"
    /\ acquired = <<"inner", "PAGING_CTX">>
    /\ inner = Some("LockedHandler::unmap")
    /\ direct # {}

\* ------------------------------------------------------------------------
\* Acpi::enable, step by step
\* ------------------------------------------------------------------------
\* the range of the for loop in Acpi::enable
EnablePolls == 300

\* crate::sleep(10): one hlt per millisecond asked for
SleepHlts == 10

\* the Acpi structures enable is called on: both ports and values zero or
\* not, with and without a PM1b control block
Acpis ==
    [smi_cmd_port : {0, 178}, acpi_enable : {0, 225}, pm1a_cnt : {1028},
     pm1b_cnt : {None, Some(1032)}]

\* what u16::read_from_port may return for a control register
PortValues == {0, 1, 2, 3}

\* any bit of the register counts
bit0_any(value) == IF value # 0 THEN 1 ELSE 0

\* value & 1
bit0(value) == value % 2

\* Acpi::enable up to the loop: the early return, the write to the SMI
\* command port
EnableCall ==
    /\ ~panicked /\ enabling.pc = "idle"
    /\ \E self \in Acpis :
        enabling' =
            IF self.smi_cmd_port = 0 \/ self.acpi_enable = 0
            THEN [enabling EXCEPT !.pc = "returned", !.self = Some(self),
                                  !.result = Some(FALSE)]
            ELSE [enabling EXCEPT !.pc = "poll", !.self = Some(self),
                                  !.writes = Append(@, [port |-> self.smi_cmd_port,
                                                        value |-> self.acpi_enable])]
    /\ UNCHANGED <<base_vars, redir_entry, words>>

\* one turn of the loop up to crate::sleep: PM1b is read only when bit 0
\* of PM1a is set
Poll ==
    /\ enabling.pc = "poll" /\ enabling.polls < EnablePolls
    /\ \E pm1a \in PortValues, pm1b \in PortValues :
       \E seen \in {[pm1a |-> pm1a,
                     pm1b |-> IF bit0(pm1a) = 1 /\ enabling.self[1].pm1b_cnt # None
                              THEN Some(pm1b) ELSE None]} :
        enabling' =
            IF bit0(pm1a) = 1 /\ (enabling.self[1].pm1b_cnt = None \/ bit0(pm1b) = 1)
            THEN [enabling EXCEPT !.pc = "returned", !.polls = @ + 1, !.seen = Some(seen),
                                  !.result = Some(TRUE)]
            ELSE [enabling EXCEPT !.pc = "sleep", !.polls = @ + 1, !.seen = Some(seen),
                                  !.unsuccessful = @ + 1, !.hlts = SleepHlts]
    /\ UNCHANGED <<base_vars, redir_entry, words>>

\* crate::sleep: one hlt returns, on the next interrupt; after the last the
\* loop goes on
Hlt ==
    /\ enabling.pc = "sleep" /\ cpu.interrupts
    /\ enabling' = [enabling EXCEPT !.hlts = @ - 1,
                                    !.pc = IF enabling.hlts = 1 THEN "poll" ELSE @]
    /\ UNCHANGED <<base_vars, redir_entry, words>>

\* the range is used up: false
LoopEnd ==
    /\ enabling.pc = "poll" /\ enabling.polls >= EnablePolls
    /\ enabling' = [enabling EXCEPT !.pc = "returned", !.result = Some(FALSE)]
    /\ UNCHANGED <<base_vars, redir_entry, words>>

EnableStart == Init /\ memory_map = MapDevices

EnableNext ==
    \/ EnableCall
    \/ Poll
    \/ Hlt
    \/ LoopEnd

\* the processor goes on executing, and the PIT programmed by pit_init
\* keeps interrupting while interrupts are enabled, so every hlt returns
SpecEnable ==
    /\ EnableStart
    /\ [][EnableNext]_vars
    /\ WF_vars(EnableCall \/ Poll \/ LoopEnd)
    /\ WF_vars(Hlt)

\* the latest poll found bit 0 set in PM1a control and, when there is a
\* PM1b, in PM1b control
Polled ==
    /\ enabling.seen[1].pm1a % 2 = 1
    /\ \/ enabling.self[1].pm1b_cnt = None
       \/ enabling.seen[1].pm1b # None /\ enabling.seen[1].pm1b[1] % 2 = 1

\* what holds of a call of Acpi::enable at every step
EnableSafe ==
    enabling.pc # "idle" =>
        IF enabling.self[1].smi_cmd_port = 0 \/ enabling.self[1].acpi_enable = 0
        THEN /\ enabling.pc = "returned" /\ enabling.result = Some(FALSE)
             /\ enabling.writes = <<>> /\ enabling.polls = 0
        ELSE /\ enabling.writes = <<[port |-> enabling.self[1].smi_cmd_port,
                                     value |-> enabling.self[1].acpi_enable]>>
             /\ enabling.polls <= 300
             /\ enabling.pc = "sleep" => ~Polled /\ enabling.unsuccessful = enabling.polls
             /\ enabling.result = Some(TRUE) =>
                    /\ enabling.pc = "returned" /\ Polled
                    /\ enabling.unsuccessful = enabling.polls - 1
             /\ enabling.result = Some(FALSE) =>
                    /\ enabling.pc = "returned"
                    /\ enabling.polls = 300 /\ enabling.unsuccessful = 300

\* C38: every call of Acpi::enable returns; it returns false with no port
\* written when smi_cmd_port or acpi_enable is 0; otherwise it writes
\* acpi_enable to the SMI command port once, polls at most 300 times,
\* returns true at the first poll that finds bit 0 set in PM1a control and
\* (when PM1b exists) in PM1b control, and false after 300 polls without
C38_EnableTerminates == []EnableSafe /\ <>(enabling.pc = "returned")

\* the 300th poll failed on the PM1b bit alone and enable returned false
C38_Witness ==
    /\ enabling.pc = "returned" /\ enabling.result = Some(FALSE)
    /\ enabling.polls = 300
    /\ enabling.seen = Some([pm1a |-> 3, pm1b |-> Some(2)])

\* ------------------------------------------------------------------------
\* RedirEntry(u64): the value as the set of the positions of its 1 bits
\* ------------------------------------------------------------------------
\* the bits of a u8 widened to u64
Bits(byte) == {i \in 0..7 : (byte \div 2^i) % 2 = 1}

\* the u8 of the bit positions below 8
Byte(bits) ==
    LET b(i) == IF i \in bits THEN 2^i ELSE 0
    IN  b(0) + b(1) + b(2) + b(3) + b(4) + b(5) + b(6) + b(7)

\* self.0 ^ mask
Xor(bits, mask) == (bits \ mask) \cup (mask \ bits)

\* RedirEntry::vector: (self.0 & 0xFF) as u8
vector(bits) == Byte(bits \cap (0..7))

\* RedirEntry::set_vector: self.0 |= vector as u64
set_vector(bits, v) == bits \cup Bits(v)

\* RedirEntry::masked: (self.0 >> 16) & 0b1 != 0
masked(bits) == 16 \in bits

\* RedirEntry::set_masked: self.0 ^= 0b1 << 16; self.0 |= (mode as u64) << 16
set_masked(bits, mode) == Xor(bits, {16}) \cup (IF mode THEN {16} ELSE {})

\* the values IOApic::redir_entry may read: vector 0, 1, 32 or 255, masked
\* or not, other fields clear or set
Priors ==
    {Bits(v) \cup m \cup o : v \in {0, 1, 32, 255}, m \in {{}, {16}},
                             o \in {{}, {8, 11, 15}, {17, 56}}}

\* Apic::get_entry: the entry as the IO APIC holds it
GetEntry ==
    /\ ~panicked
    /\ \E prior \in Priors : redir_entry' = [prior |-> prior, bits |-> prior, ops |-> <<>>]
    /\ UNCHANGED <<base_vars, enabling, words>>

\* entry.set_vector(v), with the vectors of the timer and the keyboard
SetVector ==
    /\ ~panicked /\ Len(redir_entry.ops) < MaxOps
    /\ \E v \in {32, 33} :
        redir_entry' = [redir_entry EXCEPT !.bits = set_vector(@, v),
                                           !.ops = Append(@, [op |-> "set_vector", arg |-> v])]
    /\ UNCHANGED <<base_vars, enabling, words>>

\* entry.set_masked(mode)
SetMasked ==
    /\ ~panicked /\ Len(redir_entry.ops) < MaxOps
    /\ \E mode \in BOOLEAN :
        redir_entry' = [redir_entry EXCEPT !.bits = set_masked(@, mode),
                                           !.ops = Append(@, [op |-> "set_masked",
                                                              arg |-> mode])]
    /\ UNCHANGED <<base_vars, enabling, words>>

RedirNext ==
    \/ GetEntry
    \/ SetVector
    \/ SetMasked

SpecRedir == EnableStart /\ [][RedirNext]_vars

\* C39: whatever the entry held, after set_vector(v) then set_masked(false)
\* vector() is v, masked() is false and every other bit is as before; and
\* right after set_masked(m) masked() is m, right after set_vector(v)
\* vector() is v
C39_ProgramEntry ==
    LET ops == redir_entry.ops
        bits == redir_entry.bits
        fields == (0..7) \cup {16}
    IN  /\ (Len(ops) = 2 /\ ops[1].op = "set_vector" /\ ops[2] = [op |-> "set_masked",
                                                                    arg |-> FALSE])
               => /\ vector(bits) = ops[1].arg
                  /\ ~masked(bits)
                  /\ bits \ fields = redir_entry.prior \ fields
        /\ (ops # <<>> /\ ops[Len(ops)].op = "set_masked") => masked(bits) = ops[Len(ops)].arg
        /\ (ops # <<>> /\ ops[Len(ops)].op = "set_vector") => vector(bits) = ops[Len(ops)].arg

\* ------------------------------------------------------------------------
\* The words of the bitmap blocks, bit by bit: a bit that is 1 is held as
\* <<block, index of the u32, position in the u32>>
\* ------------------------------------------------------------------------
\* the place of the bit of idx: (bitmap, int, mask) with the mask 1 << bit
\* held as the position bit
Triple(idx) ==
    << frame_idx_to_parts(idx).bitmap, frame_idx_to_parts(idx).int,
       frame_idx_to_parts(idx).bit >>

\* is_used on the words: block.bits[int] & mask != 0
word_is_used(bits, idx) == Triple(idx) \in bits

\* mark_used on the words: block.bits[int] |= mask
word_mark_used(bits, idx) == bits \cup {Triple(idx)}

\* mark_unused on the words: block.bits[int] &= !mask
word_mark_unused(bits, idx) == bits \ {Triple(idx)}

\* the frame indices marked and unmarked: the ends of words, the ends of
\* the first two blocks, and the largest index below 2^31
FrameIndices ==
    {0, 1, 31, 32, 33, 32703, 32704, 32705, 32735, 32736, 65407, 2147483647}

\* GlobalFrameAllocator::mark_used(idx)
MarkUsed ==
    /\ ~panicked
    /\ \E idx \in FrameIndices :
        words' = [bits |-> word_mark_used(words.bits, idx), frames |-> words.frames \cup {idx}]
    /\ UNCHANGED <<base_vars, enabling, redir_entry>>

\* GlobalFrameAllocator::mark_unused(idx)
MarkUnused ==
    /\ ~panicked
    /\ \E idx \in FrameIndices :
        words' = [bits |-> word_mark_unused(words.bits, idx), frames |-> words.frames \ {idx}]
    /\ UNCHANGED <<base_vars, enabling, redir_entry>>

WordsNext ==
    \/ MarkUsed
    \/ MarkUnused

SpecWords == EnableStart /\ [][WordsNext]_vars

\* C40: frame_idx_to_parts gives block idx / 32704, a word index below
\* 1022 and one bit position of a u32; two different indices never get the
\* same (block, word, bit); so is_used of a frame is true exactly when that
\* frame was marked and not unmarked since, whatever was done to others
C40_PartsInjective ==
    /\ \A idx \in FrameIndices :
           /\ frame_idx_to_parts(idx).bitmap = idx \div 32704
           /\ frame_idx_to_parts(idx).int \in 0..1021
           /\ frame_idx_to_parts(idx).bit \in 0..31
    /\ \A i, j \in FrameIndices : i # j => frame_idx_to_parts(i) # frame_idx_to_parts(j)
    /\ \A idx \in FrameIndices : word_is_used(words.bits, idx) = (idx \in words.frames)

\* frames of one word, of two words of one block and of two blocks are
\* marked while their neighbours are not
C40_Witness ==
    /\ words.frames = {0, 31, 32, 32703, 32704}
    /\ Cardinality(words.bits) = 5

====
